---- MODULE Spec2Model ----
(***************************************************************************)
(* Render orchestration of facebook360_dep: the Pipeline controller        *)
(* (scripts/render/pipeline.py), the worker consumption loop               *)
(* (scripts/render/worker.py), the two RabbitMQ queues they share, and the *)
(* frame-chunk cache checker (pipeline.py + network.py).                   *)
(***************************************************************************)
EXTENDS Integers, Sequences, FiniteSets, TLC

(***************************************************************************)
(* Bounds of the model.                                                    *)
(***************************************************************************)
NumWorkers == 2        \* worker processes running main_loop
MaxReconnects == 1     \* reconnections of the workers in a run
NumStages == 2         \* stages handed to Pipeline.run
MaxChunks == 2         \* frame chunks of a stage
MaxFailures == 1       \* handler invocations that raise in a run
MaxAttempts == 3       \* attempts at a job that raises every time
MaxPollSecs == 2       \* seconds one iteration of the wait loop may take
SlowPollSecs == 90     \* seconds an iteration takes when the broker is slow
MaxForeign == 2        \* messages published to the work queue by other clients
NumFrames == 2         \* frames first..last of a render
MaxChunkSize == 2      \* frames of a chunk (--chunk_size)

(***************************************************************************)
(* Program constants.                                                      *)
(***************************************************************************)
NO_WORKER_TIMEOUT == 180
None == -1
Completed == "Completed!"

Workers == 1..NumWorkers
Stages == 1..NumStages

\* The fixed handler table of handle_message, keyed by the prefix of msg["app"].
app_name_to_callback ==
    { "GenerateForegroundMasks", "DerpCLI", "TemporalBilateralFilter", "Transfer",
      "UpsampleDisparity", "UpsampleLayer", "ConvertToBinary", "SimpleMeshRenderer",
      "Resize" }

\* msg["app"] of a body that is a JSON object without the key.
NoApp == "<absent>"

\* The app each stage of the modelled run publishes (a stage of Pipeline).
StageApp(s) == IF s % 2 = 1 THEN "Resize" ELSE "DerpCLI"

\* json.dumps(params) of run_halted_queue for one frame chunk of a stage.
JobBody(s, c) == [json |-> TRUE, app |-> StageApp(s), stage |-> s, chunk |-> c]

\* Bodies other clients of the broker can put on the work queue: a body that
\* is not JSON, a JSON object without "app", and an app no handler matches.
ForeignBodies ==
    { [json |-> FALSE, app |-> NoApp, stage |-> 0, chunk |-> 0],
      [json |-> TRUE, app |-> NoApp, stage |-> 0, chunk |-> 0],
      [json |-> TRUE, app |-> "Unknown", stage |-> 0, chunk |-> 0] }

VARIABLES
    \* ---- controller (Pipeline.run / run_halted_queue)
    pc,                \* "stage" | "publish" | "wait" | "done" | "raised";
                       \* "init" | "await" while Pipeline is constructed
    stage,             \* index of the stage being run
    frame_chunks,      \* len(frame_chunks) after the cache check
    published,         \* messages of the stage published so far
    queue_size,        \* last response-queue depth read
    no_worker_period,  \* None, or seconds since the timestamp was taken
    \* ---- broker
    workQ,             \* ready messages of QUEUE_NAME, head first
    respQ,             \* ready messages of RESPONSE_QUEUE_NAME
    unacked,           \* deliveries not yet acked or rejected
    \* ---- workers (main_loop, callback, handle_message)
    wstate,            \* per worker: "connecting" | "consuming" | "exited"
    conn,              \* per worker: connections opened so far (channel id)
    threads,           \* handler threads started by callback
    zombies,           \* per worker: handler threads still running whose
                       \* connection is gone
    \* ---- history
    handled,           \* job bodies acked after their handler returned
    failed,            \* handler threads that ended in the except branch
    foreign,           \* messages published by other clients so far
    zeroFor,           \* None, or seconds since the first poll of the
                       \* current unbroken run of polls that saw 0 consumers
    resets,            \* whether a poll that saw a consumer cleared a
                       \* running timer
    \* ---- cache checker (_get_missing_chunks)
    params,            \* the stage's params the checker is called with
    dst,               \* per destination level: the directory or S3 prefix
    missing_chunks,    \* the list _get_missing_chunks returned last
    checked,           \* whether dst is as it was when the list was returned
    \* ---- Pipeline.run
    run_stage,         \* per element of stages: the run_stage flag
    \* ---- one handler invocation of handle_message, statement by statement
    job,               \* body delivered, the dicts of the handler, statements
                       \* executed, how it ended, body handed to failure()
    \* ---- the RabbitMQ node and render.py main
    broker,            \* "up" | "down" | "starting"
    render,            \* setup.child_pids, the worker processes, the PIDs
                       \* sent SIGTERM, where main is and how it ended
    \* ---- a second Pipeline process on the same RabbitMQ node
    other,             \* its place in run_halted_queue and its counts
    \* ---- one call of a function of render.py / pipeline.py / network.py
    calc               \* the function, its arguments, its result

ctrlVars == <<pc, stage, frame_chunks, published, queue_size, no_worker_period>>
brokerVars == <<workQ, respQ, unacked>>
workerVars == <<wstate, conn, threads, zombies>>
histVars == <<handled, failed, foreign, zeroFor, resets>>
cacheVars == <<params, dst, missing_chunks, checked>>
auxVars == <<run_stage, job, broker, render, other, calc>>
vars == <<ctrlVars, brokerVars, workerVars, histVars, cacheVars, auxVars>>

\* A body that is no JSON text, and a name bound to no dict.
NoBody == [json |-> FALSE]
NoDict == [json |-> FALSE]

\* No handler invocation is followed statement by statement.
NoJob ==
    [body |-> NoBody,
     env |-> [msg |-> NoDict, msg_cp |-> NoDict, up_cp |-> NoDict, bin_cp |-> NoDict,
              ran_download |-> "unbound", ran_upload |-> "unbound",
              input_root |-> FALSE, output_root |-> FALSE, exc |-> FALSE,
              aws |-> FALSE, replaced |-> {}],
     at |-> 0, ended |-> "idle", out |-> NoBody]

\* The parts of the program a specification leaves out, at rest: every
\* stage handed to Pipeline.run is enabled.
\* render.py main is not followed: the pipeline exists, no local worker
\* process is tracked.
NoRender ==
    [phase |-> "pipeline", how |-> "running", ip |-> [w \in Workers |-> "remote"],
     child_pids |-> <<>>, proc |-> [w \in Workers |-> "none"], signalled |-> {}]

\* No second Pipeline process, and no function call that is followed.
NoOther == [pc |-> "none", frame_chunks |-> 0, published |-> 0, queue_size |-> 0]
NoCalc == [fn |-> "none"]

NoAux ==
    /\ run_stage = [s \in Stages |-> TRUE]
    /\ job = NoJob
    /\ broker = "up"
    /\ render = NoRender
    /\ other = NoOther
    /\ calc = NoCalc

(***************************************************************************)
(* Broker helpers.                                                         *)
(***************************************************************************)
ChannelOpen(w, ch) == wstate[w] = "consuming" /\ conn[w] = ch

\* consumer_count of the work queue: one consumer per consuming worker.
ConsumerCount == Cardinality({w \in Workers : wstate[w] = "consuming"})

Occurrences(q, b) == Cardinality({i \in 1..Len(q) : q[i] = b})

\* Copies of a body the broker holds: queued plus unacknowledged.
Copies(b) == Occurrences(workQ, b) + Cardinality({d \in unacked : d.body = b})

\* Deliveries of a closed channel go back to the head of the queue.
Requeue(q, ds) ==
    LET RECURSIVE Put(_, _)
        Put(qq, rest) ==
            IF rest = {} THEN qq
            ELSE LET d == CHOOSE x \in rest : TRUE
                 IN Put(<<d.body>> \o qq, rest \ {d})
    IN Put(q, ds)

(***************************************************************************)
(* worker.py: main_loop                                                    *)
(***************************************************************************)
\* Connections opened by the workers beyond the first of each.
RECURSIVE ReconnectsOf(_)
ReconnectsOf(ws) ==
    IF ws = {} THEN 0
    ELSE LET w == CHOOSE x \in ws : TRUE
         IN (IF conn[w] > 1 THEN conn[w] - 1 ELSE 0) + ReconnectsOf(ws \ {w})

Reconnects == ReconnectsOf(Workers)

\* pika.BlockingConnection, channel, queue_declare, basic_qos(prefetch_count=1),
\* basic_consume, start_consuming.
Connect(w) ==
    /\ wstate[w] = "connecting"
    /\ conn[w] = 0 \/ Reconnects < MaxReconnects
    /\ conn' = [conn EXCEPT ![w] = @ + 1]
    /\ wstate' = [wstate EXCEPT ![w] = "consuming"]
    /\ UNCHANGED <<cacheVars, auxVars, zombies, threads, ctrlVars, brokerVars, histVars>>

\* start_consuming raises: the connection is gone.  The broker requeues what
\* the channel had unacknowledged; callbacks scheduled on the connection are
\* never run, and a handler thread that is still running can no longer
\* schedule one (add_callback_threadsafe raises on a closed connection), so
\* the worker's threads no longer act on the broker; those still running
\* their handler are counted in zombies until they end.
CloseChannel(w, next) ==
    /\ wstate[w] = "consuming"
    /\ wstate' = [wstate EXCEPT ![w] = next]
    /\ LET mine == {d \in unacked : d.w = w /\ d.ch = conn[w]}
       IN /\ workQ' = Requeue(workQ, mine)
          /\ unacked' = unacked \ mine
    /\ threads' = {t \in threads : t.w # w}
    /\ zombies' = [zombies EXCEPT ![w] =
                      @ + Cardinality({t \in threads : t.w = w /\ t.st = "running"})]
    /\ UNCHANGED <<cacheVars, auxVars, conn, respQ, ctrlVars, histVars>>

\* pika.exceptions: the classes main_loop names and some of their subclasses,
\* each with its base class.
PikaBase ==
    [AMQPError |-> "Exception",
     AMQPConnectionError |-> "AMQPError",
     ConnectionClosed |-> "AMQPConnectionError",
     ConnectionClosedByBroker |-> "ConnectionClosed",
     StreamLostError |-> "AMQPConnectionError",
     AMQPHeartbeatTimeout |-> "AMQPConnectionError",
     AMQPChannelError |-> "AMQPError",
     ChannelClosedByBroker |-> "AMQPChannelError",
     ChannelWrongStateError |-> "AMQPChannelError"]

\* isinstance(exc, cls) for an exception of class exc.
RECURSIVE IsInstance(_, _)
IsInstance(exc, cls) ==
    \/ exc = cls
    \/ exc \in DOMAIN PikaBase /\ IsInstance(PikaBase[exc], cls)

\* The errors the connection and its channel raise out of main_loop's try.
BrokerErrors ==
    {"ConnectionClosedByBroker", "StreamLostError", "AMQPHeartbeatTimeout",
     "AMQPConnectionError", "AMQPChannelError", "ChannelClosedByBroker",
     "ChannelWrongStateError"}

\* main_loop with the except clause for AMQPConnectionError put first.
main_loop_exceptBaseFirst(exc) ==
    IF IsInstance(exc, "AMQPConnectionError") THEN "continue"
    ELSE IF IsInstance(exc, "ConnectionClosedByBroker") THEN "break"
    ELSE IF IsInstance(exc, "AMQPChannelError") THEN "break"
    ELSE "propagate"

\* main_loop whose clause for AMQPConnectionError leaves the loop.
main_loop_exceptGivesUp(exc) ==
    IF IsInstance(exc, "ConnectionClosedByBroker") THEN "break"
    ELSE IF IsInstance(exc, "AMQPChannelError") THEN "break"
    ELSE IF IsInstance(exc, "AMQPConnectionError") THEN "break"
    ELSE "propagate"

\* main_loop, lines 551-559: the first except clause the exception matches.
main_loop_except(exc) ==
    IF IsInstance(exc, "ConnectionClosedByBroker") THEN "break"
    ELSE IF IsInstance(exc, "AMQPChannelError") THEN "break"
    ELSE IF IsInstance(exc, "AMQPConnectionError") THEN "continue"
    ELSE "propagate"

\* The broker errors after which main_loop goes round again, and those on
\* which it leaves the loop.
ContinueErrors == {exc \in BrokerErrors : main_loop_except(exc) = "continue"}
BreakErrors == {exc \in BrokerErrors : main_loop_except(exc) # "continue"}

\* An exception of class exc comes out of the try block of main_loop.
LoopNext ==
    [exc \in BrokerErrors |->
        IF main_loop_except(exc) = "continue" THEN "connecting" ELSE "exited"]
RaisedInLoop(w, exc) == CloseChannel(w, LoopNext[exc])

\* except pika.exceptions.AMQPConnectionError: continue
ConnectionLost(w) ==
    /\ ContinueErrors # {}
    /\ CloseChannel(w, "connecting")

\* except ConnectionClosedByBroker / AMQPChannelError: break
ClosedByBroker(w) ==
    /\ BreakErrors # {}
    /\ CloseChannel(w, "exited")

(***************************************************************************)
(* worker.py: callback -- the broker delivers one message (prefetch 1) and *)
(* callback starts a handler thread for it.                                *)
(***************************************************************************)
callback(w) ==
    /\ wstate[w] = "consuming"
    /\ workQ # <<>>
    /\ ~ \E d \in unacked : d.w = w /\ d.ch = conn[w]
    /\ LET d == [w |-> w, ch |-> conn[w], body |-> Head(workQ)]
       IN /\ unacked' = unacked \cup {d}
          /\ threads' = threads \cup {[w |-> w, ch |-> conn[w], body |-> Head(workQ),
                                       st |-> "running"]}
    /\ workQ' = Tail(workQ)
    /\ UNCHANGED <<cacheVars, auxVars, zombies, respQ, wstate, conn, ctrlVars, histVars>>

(***************************************************************************)
(* worker.py: handle_message, run on the handler thread.                   *)
(*   "dead"    : json.loads raised outside the try, the thread ends        *)
(*   "failure" : the try block raised, failure is scheduled                *)
(*   "success" : otherwise, success is scheduled                           *)
(* raises says whether the handler called for the body raises.             *)
(***************************************************************************)
\* handle_message with an exception of the handler swallowed.
HandleOutcomeSwallowed(b, raises) ==
    IF ~ b.json THEN "dead"
    ELSE IF b.app = NoApp THEN "failure"
    ELSE "success"

HandleOutcome(b, raises) ==
    IF ~ b.json THEN "dead"
    ELSE IF b.app = NoApp THEN "failure"
    ELSE IF b.app \in app_name_to_callback /\ raises THEN "failure"
    ELSE "success"

\* Whether a handler of the dispatch table is invoked on the body.
HandlerInvoked(b) == b.json /\ b.app \in app_name_to_callback

\* handle_message calling success() itself on the handler thread instead of
\* scheduling it on the connection.
handle_messageDirect(t, raises) ==
    /\ t \in threads
    /\ t.st = "running"
    /\ LET out == HandleOutcome(t.body, raises)
       IN /\ threads' =
            IF out # "failure" \/ ~ ChannelOpen(t.w, t.ch)
            THEN threads \ {t}
            ELSE (threads \ {t}) \cup {[t EXCEPT !.st = out]}
          /\ failed' = IF out = "failure" THEN failed + 1 ELSE failed
          /\ IF out = "success" /\ ChannelOpen(t.w, t.ch)
             THEN /\ unacked' = unacked \ {[w |-> t.w, ch |-> t.ch, body |-> t.body]}
                  /\ respQ' = Append(respQ, Completed)
                  /\ handled' = IF t.body.json /\ t.body.app \in app_name_to_callback
                                THEN handled \cup {t.body} ELSE handled
             ELSE UNCHANGED <<unacked, respQ, handled>>
    /\ UNCHANGED <<cacheVars, auxVars, zombies, wstate, conn, ctrlVars, workQ, foreign, zeroFor, resets>>

handle_message(t, raises) ==
    /\ t \in threads
    /\ t.st = "running"
    /\ LET out == HandleOutcome(t.body, raises)
       IN /\ threads' =
            IF out = "dead" \/ ~ ChannelOpen(t.w, t.ch)
            THEN threads \ {t}
            ELSE (threads \ {t}) \cup {[t EXCEPT !.st = out]}
       /\ failed' = IF out = "failure" THEN failed + 1 ELSE failed
    /\ UNCHANGED <<cacheVars, auxVars, zombies, wstate, conn, ctrlVars, brokerVars, handled, foreign, zeroFor, resets>>

\* A handler thread whose connection is gone publishing its token all the
\* same when its handler ends.
ThreadEndsPublishes(w) ==
    /\ zombies[w] > 0
    /\ zombies' = [zombies EXCEPT ![w] = @ - 1]
    /\ respQ' = Append(respQ, Completed)
    /\ UNCHANGED <<cacheVars, auxVars, wstate, conn, threads, ctrlVars, workQ, unacked, histVars>>

\* A handler thread whose connection is gone ends: the handler returns or
\* raises, add_callback_threadsafe raises on the closed connection, and
\* nothing reaches the broker.
ThreadEnds(w) ==
    /\ zombies[w] > 0
    /\ zombies' = [zombies EXCEPT ![w] = @ - 1]
    /\ UNCHANGED <<cacheVars, auxVars, wstate, conn, threads, ctrlVars, brokerVars, histVars>>

(***************************************************************************)
(* worker.py: success / failure, run by the connection's I/O loop.         *)
(***************************************************************************)
\* basic_reject(delivery_tag): pika's requeue parameter defaults to True, so
\* the broker puts the delivery back at the head of the queue.
basic_reject(q, b) == <<b>> \o q

\* basic_publish(routing_key=QUEUE_NAME, body=json.dumps(msg))
basic_publish(q, b) == Append(q, b)

\* success with the completion token published twice.
successTokenTwice(t) ==
    /\ t \in threads
    /\ t.st = "success"
    /\ threads' = threads \ {t}
    /\ IF ChannelOpen(t.w, t.ch)
       THEN /\ unacked' = unacked \ {[w |-> t.w, ch |-> t.ch, body |-> t.body]}
            /\ respQ' = Append(Append(respQ, Completed), Completed)
            /\ handled' = IF t.body.json /\ t.body.app \in app_name_to_callback
                          THEN handled \cup {t.body} ELSE handled
       ELSE UNCHANGED <<unacked, respQ, handled>>
    /\ UNCHANGED <<cacheVars, auxVars, zombies, workQ, wstate, conn, ctrlVars, failed, foreign, zeroFor, resets>>

\* success with the basic_publish of the completion token left out.
successNoToken(t) ==
    /\ t \in threads
    /\ t.st = "success"
    /\ threads' = threads \ {t}
    /\ IF ChannelOpen(t.w, t.ch)
       THEN /\ unacked' = unacked \ {[w |-> t.w, ch |-> t.ch, body |-> t.body]}
            /\ handled' = IF HandlerInvoked(t.body)
                          THEN handled \cup {t.body} ELSE handled
       ELSE UNCHANGED <<unacked, handled>>
    /\ UNCHANGED <<cacheVars, auxVars, zombies, workQ, respQ, wstate, conn, ctrlVars, failed, foreign, zeroFor, resets>>

success(t) ==
    /\ t \in threads
    /\ t.st = "success"
    /\ threads' = threads \ {t}
    /\ IF ChannelOpen(t.w, t.ch)
       THEN /\ unacked' = unacked \ {[w |-> t.w, ch |-> t.ch, body |-> t.body]}
            /\ respQ' = basic_publish(respQ, Completed)
            /\ handled' = IF HandlerInvoked(t.body)
                          THEN handled \cup {t.body} ELSE handled
       ELSE UNCHANGED <<unacked, respQ, handled>>
    /\ UNCHANGED <<cacheVars, auxVars, zombies, workQ, wstate, conn, ctrlVars, failed, foreign, zeroFor, resets>>

failure(t) ==
    /\ t \in threads
    /\ t.st = "failure"
    /\ threads' = threads \ {t}
    /\ IF ChannelOpen(t.w, t.ch)
       THEN /\ unacked' = unacked \ {[w |-> t.w, ch |-> t.ch, body |-> t.body]}
            /\ workQ' = basic_publish(basic_reject(workQ, t.body), t.body)
       ELSE UNCHANGED <<unacked, workQ>>
    /\ UNCHANGED <<cacheVars, auxVars, zombies, respQ, wstate, conn, ctrlVars, histVars>>

(***************************************************************************)
(* pipeline.py: Pipeline.run and run_halted_queue                          *)
(***************************************************************************)
\* Pipeline.run with "if run_stage" left out: the next element of the list.
NextStageAnyFlag(s) == IF s < NumStages THEN s + 1 ELSE s

\* Pipeline.run: the elements of stages after element s whose flag is set.
EnabledAfter(s) == {i \in Stages : i > s /\ run_stage[i]}

\* Pipeline.run: the next stage of the list that is run, or the end of the
\* loop (s = 0 before the first element).
NextStagePc(s) == IF EnabledAfter(s) # {} THEN "stage" ELSE "done"
NextStage(s) ==
    IF EnabledAfter(s) # {}
    THEN CHOOSE i \in EnabledAfter(s) : \A j \in EnabledAfter(s) : i <= j
    ELSE s

\* A purge that removes nothing (a queue name of the process's own).
purge_queueOwnName(q) == q

\* channel.queue_purge: drops the ready messages of the queue (a delivery
\* that is unacknowledged is not in the queue and is not dropped).
purge_queue(q) == <<>>

\* run_halted_queue without the early return for an empty chunk list.
StartStageNoEarlyReturn ==
    /\ pc = "stage"
    /\ workQ' = <<>>
    /\ respQ' = <<>>
    /\ \E n \in 0..MaxChunks : frame_chunks' = n
    /\ pc' = "publish"
    /\ stage' = stage
    /\ published' = 0
    /\ handled' = {}
    /\ UNCHANGED <<cacheVars, auxVars, queue_size, no_worker_period, unacked, workerVars, failed,
                   foreign, zeroFor, resets>>

\* Lines 184-197: declare and purge both queues, ask the cache checker for
\* the missing chunks (n of them), return at once when there is none.
StartStage ==
    /\ pc = "stage"
    /\ workQ' = purge_queue(workQ)
    /\ respQ' = purge_queue(respQ)
    /\ \E n \in 0..MaxChunks :
         /\ frame_chunks' = n
         /\ IF n = 0
            THEN /\ pc' = NextStagePc(stage)
                 /\ stage' = NextStage(stage)
            ELSE /\ pc' = "publish"
                 /\ stage' = stage
    /\ published' = 0
    /\ handled' = {}
    /\ UNCHANGED <<cacheVars, auxVars, queue_size, no_worker_period, unacked, workerVars, failed, foreign,
                   zeroFor, resets>>

\* The publish loop walking the chunk list from its end.
PublishReversed ==
    /\ pc = "publish"
    /\ workQ' = Append(workQ, JobBody(stage, frame_chunks - published))
    /\ published' = published + 1
    /\ IF published + 1 = frame_chunks
       THEN /\ pc' = "wait"
            /\ queue_size' = Len(respQ)
            /\ no_worker_period' = None
       ELSE UNCHANGED <<pc, queue_size, no_worker_period>>
    /\ UNCHANGED <<cacheVars, auxVars, stage, frame_chunks, respQ, unacked, workerVars, histVars>>

\* Lines 199-229: one basic_publish per missing chunk; after the last one
\* the response-queue depth is read and the wait loop is entered.
Publish ==
    /\ pc = "publish"
    /\ workQ' = basic_publish(workQ, JobBody(stage, published + 1))
    /\ published' = published + 1
    /\ IF published + 1 = frame_chunks
       THEN /\ pc' = "wait"
            /\ queue_size' = Len(respQ)
            /\ no_worker_period' = None
       ELSE UNCHANGED <<pc, queue_size, no_worker_period>>
    /\ UNCHANGED <<cacheVars, auxVars, stage, frame_chunks, respQ, unacked, workerVars, histVars>>

\* The timer with "if num_workers != 0: no_worker_period = None" left out.
NextNoWorkerPeriodNoReset(nwp, num_workers, secs) ==
    IF num_workers # 0 THEN nwp
    ELSE IF nwp = None THEN 0
    ELSE nwp + secs

\* Lines 238-242: the timer of the wait loop after a poll that saw
\* num_workers consumers, secs seconds after the previous poll.
\* no_worker_period holds time.time() - no_worker_period of the code.
NextNoWorkerPeriod(nwp, num_workers, secs) ==
    IF num_workers # 0 THEN None
    ELSE IF nwp = None THEN 0
    ELSE nwp + secs

\* The test with the timeout compared in the wrong unit (minutes for seconds).
RaisesNoWorkersLate(nwp, num_workers) ==
    num_workers = 0 /\ nwp > NO_WORKER_TIMEOUT * 60

\* Line 240, 243: the test that raises "No workers for extended time!".
RaisesNoWorkers(nwp, num_workers) ==
    num_workers = 0 /\ nwp > NO_WORKER_TIMEOUT

\* Lines 230-247: one iteration of the wait loop that reads size from the
\* response queue and num_workers from the work queue.
PollBody(size, num_workers, secs) ==
    /\ pc = "wait"
    /\ queue_size # frame_chunks
    /\ queue_size' = size
    /\ LET nwp == NextNoWorkerPeriod(no_worker_period, num_workers, secs)
       IN /\ no_worker_period' = nwp
          /\ pc' = IF RaisesNoWorkers(nwp, num_workers) THEN "raised" ELSE "wait"
    /\ UNCHANGED <<cacheVars, auxVars, stage, frame_chunks, published, brokerVars, workerVars,
                   handled, failed, foreign>>

\* queue_declare(RESPONSE_QUEUE_NAME).method.message_count and
\* queue_declare(QUEUE_NAME).method.consumer_count, read from the broker.
Poll ==
    /\ PollBody(Len(respQ), ConsumerCount, SlowPollSecs)
    /\ UNCHANGED <<zeroFor, resets>>

\* Pipeline.run with the stage call wrapped in "try: stage() except: pass".
LoopExitSwallows ==
    /\ \/ pc = "wait" /\ queue_size = frame_chunks
       \/ pc = "raised"
    /\ pc' = NextStagePc(stage)
    /\ stage' = NextStage(stage)
    /\ UNCHANGED <<cacheVars, auxVars, frame_chunks, published, queue_size, no_worker_period,
                   brokerVars, workerVars, histVars>>

\* Line 230 false, line 248: the loop ends and run_halted_queue returns.
LoopExit ==
    /\ pc = "wait"
    /\ queue_size = frame_chunks
    /\ pc' = NextStagePc(stage)
    /\ stage' = NextStage(stage)
    /\ UNCHANGED <<cacheVars, auxVars, frame_chunks, published, queue_size, no_worker_period,
                   brokerVars, workerVars, histVars>>

(***************************************************************************)
(* network.py: frame names.  A name is the sequence of its characters.     *)
(***************************************************************************)
DigitChars == <<"0", "1", "2", "3", "4", "5", "6", "7", "8", "9">>

\* str(frame) of a non-negative integer.
RECURSIVE str(_)
str(n) ==
    IF n < 10 THEN <<DigitChars[n + 1]>>
    ELSE str(n \div 10) \o <<DigitChars[(n % 10) + 1]>>

\* int(name) of a string of digits.
RECURSIVE int(_)
int(s) ==
    IF s = <<>> THEN 0
    ELSE 10 * int(SubSeq(s, 1, Len(s) - 1))
         + (CHOOSE i \in 1..10 : DigitChars[i] = s[Len(s)]) - 1

rjust(s, width, fill) ==
    [i \in 1..(IF Len(s) >= width THEN 0 ELSE width - Len(s)) |-> fill] \o s

get_frame_name(frame) == rjust(str(frame), 6, "0")

\* get_frame_range as its docstring describes it ("excludes last").
get_frame_rangeExclusive(first, last) ==
    [i \in 1..(int(last) - int(first)) |-> get_frame_name(int(first) + i - 1)]

get_frame_range(first, last) ==
    [i \in 1..(int(last) + 1 - int(first)) |-> get_frame_name(int(first) + i - 1)]

\* The chunk list with "last" not clamped to FLAGS.last.
FrameChunksNoMin(first, last, chunk_size) ==
    [i \in 1..((last - first) \div chunk_size + 1) |->
        LET frame == first + (i - 1) * chunk_size
        IN [first |-> get_frame_name(frame),
            last |-> get_frame_name(frame + chunk_size - 1)]]

\* render.py: the chunks of frames first..last, chunk_size frames each.
FrameChunks(first, last, chunk_size) ==
    [i \in 1..((last - first) \div chunk_size + 1) |->
        LET frame == first + (i - 1) * chunk_size
        IN [first |-> get_frame_name(frame),
            last |-> get_frame_name(IF last < frame + chunk_size - 1
                                    THEN last ELSE frame + chunk_size - 1)]]

(***************************************************************************)
(* Storage.  A destination is a local directory or an S3 prefix:           *)
(*   exists : the directory exists (an S3 prefix always "exists")          *)
(*   dirs   : its sub-directories (camera directories)                     *)
(*   files  : [dir, name] with dir = "" for a file of the directory itself *)
(* A file name is [stem, ext]: the text before and after its last dot.     *)
(* A path is the sequence of its components.                               *)
(***************************************************************************)
RigCameras == {"cam0", "cam1"}
ImageExt == "png"

NoDir == [exists |-> FALSE, dirs |-> {}, files |-> {}]
EmptyPrefix == [exists |-> TRUE, dirs |-> {}, files |-> {}]

FileName(stem, ext) == [stem |-> stem, ext |-> ext]
basename(path) == path[Len(path)]
splitext(name) == <<name.stem, name.ext>>
StartsWith(s, prefix) ==
    Len(s) >= Len(prefix) /\ SubSeq(s, 1, Len(prefix)) = prefix

\* The flag listdir appends to the S3 URL with no space before it.
RecursiveFlag == <<"-", "-", "r", "e", "c", "u", "r", "s", "i", "v", "e">>

\* listdir(src, recursive=True).
\*  s3   : "aws s3 ls <src>/--recursive" lists the keys of src that begin with
\*         the flag; the command failing (nothing listed) gives set().
\*  local: os.walk; a file of src itself is "./<file>", a file of a
\*         sub-directory "<dir>/<file>"; a directory that does not exist
\*         gives the empty set.
listdir(src, s3) ==
    IF s3
    THEN {<<f.name>> : f \in {g \in src.files : StartsWith(g.name.stem, RecursiveFlag)}}
    ELSE {<<(IF f.dir = "" THEN "." ELSE f.dir), f.name>> : f \in src.files}

\* Results of a call that may raise.
Raised == [raised |-> TRUE, val |-> {}]
Return(v) == [raised |-> FALSE, val |-> v]

\* get_sample_file of a local camera directory: the first file os.walk
\* yields (any of them), None for a directory with no file.
get_sample_file(src, cam) == {f.name : f \in {g \in src.files : g.dir = cam}}

\* get_frame_fns(msg, frames, uncompressed, src).  pick is the camera
\* directory next(iter(cam_dirs)) yields when there is more than one.
get_frame_fns(msg, frames, uncompressed, src, pick) ==
    LET fr == {frames[i] : i \in 1..Len(frames)}
    IN IF uncompressed
       THEN IF msg.app = "SimpleMeshRenderer"
            THEN Return({<<FileName(f, msg.file_type)>> : f \in fr})
            ELSE IF ~ src.exists THEN Raised   \* next(os.walk(src)): StopIteration
            ELSE LET cam_dirs == src.dirs
                 IN IF msg.app \in {"ConvertToBinary", "DerpCLI"}
                    THEN LET img_exts == {msg.output_formats[i] :
                                             i \in 1..Len(msg.output_formats)}
                         IN Return({<<c, FileName(f, e)>> :
                                      c \in cam_dirs, f \in fr, e \in img_exts})
                    ELSE IF cam_dirs = {} THEN Raised   \* next(iter([]))
                    ELSE LET cam == IF pick \in cam_dirs THEN pick
                                    ELSE CHOOSE c \in cam_dirs : TRUE
                             samples == get_sample_file(src, cam)
                         IN IF samples = {} THEN Raised   \* splitext(None)
                            ELSE LET img_ext ==
                                       splitext(CHOOSE n \in samples : TRUE)[2]
                                 IN Return({<<c, FileName(f, img_ext)>> :
                                              c \in cam_dirs, f \in fr})
       ELSE Return({<<FileName(f, "tar")>> : f \in fr})

(***************************************************************************)
(* pipeline.py: the frame-chunk cache checker.                             *)
(***************************************************************************)
\* _get_missing_chunks_level with "nothing is missing" returned where the
\* code returns None.
get_missing_chunks_levelQuiet(msg, src, chunks, pick) ==
    LET dst_frames == get_frame_range(chunks[1].first,
                                      chunks[Len(chunks)].last)
        expected_frame_fns == get_frame_fns(msg, dst_frames, ~ msg.s3, src, pick)
    IN IF expected_frame_fns.raised THEN Return({})
       ELSE Return({splitext(basename(fn))[1] :
                       fn \in expected_frame_fns.val \ listdir(src, msg.s3)})

\* _get_missing_chunks_level: Raised stands for the None it returns when
\* get_frame_fns or listdir raised.
get_missing_chunks_level(msg, src, chunks, pick) ==
    LET dst_frames == get_frame_range(chunks[1].first,
                                      chunks[Len(chunks)].last)
        uncompressed == ~ msg.s3
        expected_frame_fns == get_frame_fns(msg, dst_frames, uncompressed, src, pick)
    IN IF expected_frame_fns.raised THEN Raised
       ELSE LET actual_frame_fns == listdir(src, msg.s3)
                missing_frames_fns == expected_frame_fns.val \ actual_frame_fns
            IN Return({splitext(basename(fn))[1] : fn \in missing_frames_fns})

\* The loop over params["dst_level"] of _get_missing_chunks, from level i on.
RECURSIVE MissingOverLevels(_, _, _, _, _, _)
MissingOverLevels(msg, dirs, chunks, picks, i, missing_frames) ==
    IF i > Len(msg.dst_level) THEN Return(missing_frames)
    ELSE LET new_missing_chunks ==
                 get_missing_chunks_level(msg, dirs[i], chunks, picks[i])
         IN IF new_missing_chunks.raised THEN Raised
            ELSE MissingOverLevels(msg, dirs, chunks, picks, i + 1,
                                   missing_frames \cup new_missing_chunks.val)

\* The frames of a chunk.
ChunkFrames(frame_chunk) ==
    LET r == get_frame_range(frame_chunk.first, frame_chunk.last)
    IN {r[i] : i \in 1..Len(r)}

\* Lines 147-161: missing_frames of _get_missing_chunks, Raised where it
\* returns frame_chunks because a level returned None.
missing_frames_of(msg, dirs, chunks, picks) ==
    IF msg.level_list
    THEN MissingOverLevels(msg, dirs, chunks, picks, 1, {})
    ELSE get_missing_chunks_level(msg, dirs[1], chunks, picks[1])

\* _get_missing_chunks that looks at the first frame of each chunk only.
get_missing_chunksFirstFrame(msg, dirs, chunks, picks) ==
    IF msg.force_recompute THEN chunks
    ELSE LET missing_frames == missing_frames_of(msg, dirs, chunks, picks)
         IN IF missing_frames.raised THEN chunks
            ELSE IF missing_frames.val = {} THEN <<>>
            ELSE SelectSeq(chunks, LAMBDA ch : ch.first \in missing_frames.val)

\* _get_missing_chunks that consults the cache although force_recompute is set.
get_missing_chunksNoForce(msg, dirs, chunks, picks) ==
    LET missing_frames == missing_frames_of(msg, dirs, chunks, picks)
    IN IF missing_frames.raised THEN chunks
       ELSE IF missing_frames.val = {} THEN <<>>
       ELSE SelectSeq(chunks,
                      LAMBDA ch : ChunkFrames(ch) \cap missing_frames.val # {})

\* _get_missing_chunks(params, frame_chunks).
get_missing_chunks(msg, dirs, chunks, picks) ==
    IF msg.force_recompute THEN chunks
    ELSE LET missing_frames == missing_frames_of(msg, dirs, chunks, picks)
         IN IF missing_frames.raised THEN chunks
            ELSE IF missing_frames.val = {} THEN <<>>
            ELSE SelectSeq(chunks,
                           LAMBDA ch : ChunkFrames(ch) \cap missing_frames.val # {})

(***************************************************************************)
(* The cache checker and the destination it reads (SpecCache).  A stage's  *)
(* params are fixed; the stage's workers, earlier runs and the user write  *)
(* to the destination; the controller calls _get_missing_chunks.           *)
(***************************************************************************)
\* The apps of the stages of Pipeline, one for each branch of get_frame_fns.
CacheApps == {"SimpleMeshRenderer", "DerpCLI", "ConvertToBinary", "Resize"}

\* params["dst_level"]: None or one level, or a list of levels.
DstLevels ==
    { [level_list |-> FALSE, dst_level |-> <<0>>],
      [level_list |-> TRUE, dst_level |-> <<0, 1>>] }

\* params["output_formats"].split(",")
OutputFormats(lv) == IF lv.level_list THEN {<<"pfm">>} ELSE {<<"pfm">>, <<"exr", "pfm">>}

CacheParams ==
    { [app |-> a, s3 |-> s, force_recompute |-> f, level_list |-> lv.level_list,
       dst_level |-> lv.dst_level, output_formats |-> o, file_type |-> ImageExt,
       frame_chunks |-> FrameChunks(0, NumFrames - 1, cs)] :
        a \in CacheApps, s \in BOOLEAN, f \in BOOLEAN, lv \in DstLevels,
        o \in UNION {OutputFormats(l) : l \in DstLevels}, cs \in 1..MaxChunkSize }

\* The params of the stages of Pipeline: a list of levels is passed by the
\* resize and the batched DerpCLI stages, and only the ConvertToBinary
\* stages take output_formats from the flags (DerpCLI is given "pfm").
StageParams ==
    { p \in CacheParams :
        /\ p.output_formats \in OutputFormats(p)
        /\ p.level_list => p.app \in {"DerpCLI", "Resize"}
        /\ p.app # "ConvertToBinary" => p.output_formats = <<"pfm">> }

LevelIndex(p) == 1..Len(p.dst_level)

\* The files a stage leaves at one destination level for a frame: one
\* archive on S3 (exports are uploaded as they are), one image for
\* SimpleMeshRenderer, otherwise one image per rig camera and format.
StageOutputs(p, frame) ==
    IF p.app = "SimpleMeshRenderer"
    THEN {[dir |-> "", name |-> FileName(frame, p.file_type)]}
    ELSE IF p.s3 THEN {[dir |-> "", name |-> FileName(frame, "tar")]}
    ELSE IF p.app \in {"ConvertToBinary", "DerpCLI"}
    THEN {[dir |-> c, name |-> FileName(frame, p.output_formats[i])] :
            c \in RigCameras, i \in 1..Len(p.output_formats)}
    ELSE {[dir |-> c, name |-> FileName(frame, ImageExt)] : c \in RigCameras}

AllFrames(p) == UNION {ChunkFrames(p.frame_chunks[i]) : i \in 1..Len(p.frame_chunks)}

NoCache ==
    /\ params = CHOOSE p \in StageParams : TRUE
    /\ dst = <<NoDir>>
    /\ missing_chunks = <<>>
    /\ checked = FALSE

InitCache ==
    /\ NoAux
    /\ pc = "stage"
    /\ stage = 1
    /\ frame_chunks = 0
    /\ published = 0
    /\ queue_size = 0
    /\ no_worker_period = None
    /\ workQ = <<>>
    /\ respQ = <<>>
    /\ unacked = {}
    /\ wstate = [w \in Workers |-> "connecting"]
    /\ conn = [w \in Workers |-> 0]
    /\ threads = {}
    /\ zombies = [w \in Workers |-> 0]
    /\ handled = {}
    /\ failed = 0
    /\ foreign = 0
    /\ zeroFor = None
    /\ resets = FALSE
    /\ params \in StageParams
    /\ dst = [i \in LevelIndex(params) |-> IF params.s3 THEN EmptyPrefix ELSE NoDir]
    /\ missing_chunks = <<>>
    /\ checked = FALSE

\* A write to the destination leaves the stage alone; the list of the last
\* check is dropped with it (missing_chunks is read while checked holds).
CacheUnchanged == UNCHANGED <<ctrlVars, brokerVars, workerVars, histVars, auxVars, params>>

\* os.makedirs of a local destination level.
MkDst(i) ==
    /\ ~ params.s3
    /\ ~ dst[i].exists
    /\ dst' = [dst EXCEPT ![i].exists = TRUE]
    /\ checked' = FALSE
    /\ missing_chunks' = <<>>
    /\ CacheUnchanged

\* os.makedirs of a camera directory of a local destination level.
MkCamDir(i, c) ==
    /\ ~ params.s3
    /\ params.app # "SimpleMeshRenderer"
    /\ dst[i].exists
    /\ c \notin dst[i].dirs
    /\ dst' = [dst EXCEPT ![i].dirs = @ \cup {c}]
    /\ checked' = FALSE
    /\ missing_chunks' = <<>>
    /\ CacheUnchanged

\* One output file of the stage is written to a local destination level.
WriteFile(i, f) ==
    /\ ~ params.s3
    /\ dst[i].exists
    /\ f.dir = "" \/ f.dir \in dst[i].dirs
    /\ f \notin dst[i].files
    /\ dst' = [dst EXCEPT ![i].files = @ \cup {f}]
    /\ checked' = FALSE
    /\ missing_chunks' = <<>>
    /\ CacheUnchanged

\* One output object of the stage is uploaded to an S3 destination level.
PutObject(i, f) ==
    /\ params.s3
    /\ f \notin dst[i].files
    /\ dst' = [dst EXCEPT ![i].files = @ \cup {f}]
    /\ checked' = FALSE
    /\ missing_chunks' = <<>>
    /\ CacheUnchanged

\* The workers complete a chunk the checker reported missing: every output
\* of every frame of the chunk is written to every destination level
\* (directories are created as needed) and nothing else changes.
CompleteChunk(k) ==
    /\ checked
    /\ ~ params.force_recompute
    /\ params.frame_chunks[k] \in {missing_chunks[j] : j \in 1..Len(missing_chunks)}
    /\ LET out == UNION {StageOutputs(params, fr) :
                            fr \in ChunkFrames(params.frame_chunks[k])}
       IN dst' = [i \in LevelIndex(params) |->
                    [exists |-> TRUE,
                     dirs |-> dst[i].dirs \cup ({f.dir : f \in out} \ {""}),
                     files |-> dst[i].files \cup out]]
    /\ checked' = FALSE
    /\ missing_chunks' = <<>>
    /\ CacheUnchanged

\* run_halted_queue, line 195: frame_chunks = self._get_missing_chunks(...)
CheckCache ==
    /\ ~ checked
    /\ \E picks \in [LevelIndex(params) -> RigCameras] :
         missing_chunks' = get_missing_chunks(params, dst, params.frame_chunks, picks)
    /\ checked' = TRUE
    /\ UNCHANGED dst
    /\ CacheUnchanged

NextCache ==
    \/ \E i \in LevelIndex(params) : MkDst(i)
    \/ \E i \in LevelIndex(params), c \in RigCameras : MkCamDir(i, c)
    \/ \E i \in LevelIndex(params), fr \in AllFrames(params) :
         \E f \in StageOutputs(params, fr) : WriteFile(i, f)
    \/ \E i \in LevelIndex(params), fr \in AllFrames(params) :
         \E f \in StageOutputs(params, fr) : PutObject(i, f)
    \/ \E k \in 1..Len(params.frame_chunks) : CompleteChunk(k)
    \/ CheckCache

SpecCache == InitCache /\ [][NextCache]_vars

\* Some expected output of the frame is absent from a destination level.
FrameIncomplete(fr) ==
    \E i \in LevelIndex(params) :
        \E f \in StageOutputs(params, fr) : f \notin dst[i].files

ChunkIncomplete(ch) == \E fr \in ChunkFrames(ch) : FrameIncomplete(fr)

Dispatched == {missing_chunks[i] : i \in 1..Len(missing_chunks)}

\* C3: without force_recompute, every chunk that holds a frame with an
\* expected output file absent from the destination is in the list the
\* checker returns, whatever the stage and whatever state the destination is
\* in (absent, existing and empty, some camera directories only).
C3_NoWorkOmitted ==
    (checked /\ ~ params.force_recompute) =>
        \A i \in 1..Len(params.frame_chunks) :
            ChunkIncomplete(params.frame_chunks[i])
                => params.frame_chunks[i] \in Dispatched

\* The listing of a destination level fails: a local directory that does
\* not exist, an S3 listing command that finds nothing and exits non-zero.
ListingFails(p, d) ==
    IF p.s3 THEN {g \in d.files : StartsWith(g.name.stem, RecursiveFlag)} = {}
    ELSE ~ d.exists

\* The levels _get_missing_chunks looks at.
RequestedLevels(p) == IF p.level_list THEN LevelIndex(p) ELSE {1}

\* C14: when the listing fails or the destination is absent at some
\* requested level, the whole requested chunk list is dispatched unchanged.
C14_ListingFailureDispatchesAll ==
    (checked /\ \E i \in RequestedLevels(params) : ListingFails(params, dst[i]))
        => missing_chunks = params.frame_chunks

\* The first level is complete, the second does not exist.
C14_Witness ==
    /\ checked
    /\ ~ params.force_recompute
    /\ ~ params.s3
    /\ params.level_list
    /\ Len(params.frame_chunks) > 1
    /\ \A fr \in AllFrames(params) : StageOutputs(params, fr) \subseteq dst[1].files
    /\ ~ dst[2].exists
    /\ missing_chunks = params.frame_chunks

\* C15: for a stage whose dst_level is a list, a chunk is dispatched exactly
\* when some frame of it lacks an expected output at some requested level:
\* dispatched if one level misses it although all others hold it, not
\* dispatched if every level holds every frame of it.
C15_MultiLevelUnion ==
    (checked /\ ~ params.force_recompute /\ params.level_list) =>
        \A k \in 1..Len(params.frame_chunks) :
            ChunkIncomplete(params.frame_chunks[k])
                <=> params.frame_chunks[k] \in Dispatched

\* The inclusive range [first, last] of the chunk holds a frame of the set.
ContainsMissing(ch, frames) ==
    \E f \in frames : int(ch.first) <= int(f) /\ int(f) <= int(ch.last)

\* Position of a chunk in the requested chunk list.
ChunkIndex(ch) == CHOOSE k \in 1..Len(params.frame_chunks) : params.frame_chunks[k] = ch

WithoutChunk(chunks, ch) == SelectSeq(chunks, LAMBDA c : c # ch)

\* C17: when the outputs of a chunk reported missing are added to the
\* destination and nothing else changes, the next computation returns the
\* previous result without that chunk.
C17_Monotone ==
    [][\A k \in 1..Len(params.frame_chunks) :
          CompleteChunk(k) =>
              \A picks \in [LevelIndex(params) -> RigCameras] :
                  get_missing_chunks(params, dst', params.frame_chunks, picks)
                      = WithoutChunk(missing_chunks, params.frame_chunks[k])]_vars

\* C19: with force_recompute set, every chunk of the requested list is
\* dispatched whatever the destination holds (the destination is not read).
C19_ForceRecomputeDispatchesAll ==
    (checked /\ params.force_recompute) => missing_chunks = params.frame_chunks

\* A complete local destination, recomputed all the same.
C19_Witness ==
    /\ checked
    /\ params.force_recompute
    /\ ~ params.s3
    /\ params.app = "Resize"
    /\ Len(params.frame_chunks) > 1
    /\ \A fr \in AllFrames(params) : ~ FrameIncomplete(fr)
    /\ missing_chunks = params.frame_chunks

\* C4: without force_recompute, when every expected output of every frame
\* is at the destination the checker returns the empty list, for every
\* stage, on local and on S3 destinations.
C4_CompleteDestinationIdempotent ==
    (checked /\ ~ params.force_recompute
       /\ \A fr \in AllFrames(params) : ~ FrameIncomplete(fr))
        => missing_chunks = <<>>

(***************************************************************************)
(* The run: one controller, NumWorkers workers, one broker.                *)
(***************************************************************************)
\* Every failure adds a message to the broker and, in the end, a token to
\* the response queue; the model lets limit handler threads fail.
Handle(t, raises, limit) ==
    /\ t \in threads
    /\ t.st = "running"
    /\ HandleOutcome(t.body, raises) = "failure" => failed < limit
    /\ handle_message(t, raises)

Init ==
    /\ NoAux
    /\ pc = "stage"
    /\ stage = 1
    /\ frame_chunks = 0
    /\ published = 0
    /\ queue_size = 0
    /\ no_worker_period = None
    /\ workQ = <<>>
    /\ respQ = <<>>
    /\ unacked = {}
    /\ wstate = [w \in Workers |-> "connecting"]
    /\ conn = [w \in Workers |-> 0]
    /\ threads = {}
    /\ zombies = [w \in Workers |-> 0]
    /\ handled = {}
    /\ failed = 0
    /\ foreign = 0
    /\ zeroFor = None
    /\ resets = FALSE
    /\ NoCache

WorkerNext ==
    \/ \E w \in Workers : Connect(w)
    \/ \E w \in Workers : ConnectionLost(w)
    \/ \E w \in Workers : ClosedByBroker(w)
    \/ \E w \in Workers : callback(w)
    \/ \E t \in threads : \E raises \in BOOLEAN : Handle(t, raises, MaxFailures)
    \/ \E w \in Workers : ThreadEnds(w)
    \/ \E t \in threads : success(t)
    \/ \E t \in threads : failure(t)

Next ==
    \/ StartStage
    \/ Publish
    \/ Poll
    \/ LoopExit
    \/ WorkerNext

Spec == Init /\ [][Next]_vars

(***************************************************************************)
(* Claims about the run (Spec).                                            *)
(***************************************************************************)
\* The controller is about to return from run_halted_queue for the stage.
Returning == pc = "wait" /\ queue_size = frame_chunks

\* C1: when run_halted_queue returns for a stage, every job it published for
\* the stage has been acknowledged after its handler returned, no copy of a
\* job of the stage is queued or unacknowledged, and so no worker holds a job
\* of an earlier stage once a job of the next stage is published.
C1_StageDrainedAtReturn ==
    /\ Returning =>
         /\ \A c \in 1..frame_chunks : JobBody(stage, c) \in handled
         /\ \A c \in 1..frame_chunks : Copies(JobBody(stage, c)) = 0
    /\ (pc \in {"publish", "wait"} /\ published > 0) =>
         \A d \in unacked : d.body.stage = stage

\* C2: the failure path leaves exactly one copy of the failed job with the
\* broker: one before basic_reject, one after basic_publish.
C2_OneCopyPerFailure ==
    [][\A t \in threads :
          (failure(t) /\ ChannelOpen(t.w, t.ch)) =>
              (Copies(t.body) = 1 /\ Copies(t.body)' = 1)]_vars

\* Handler threads of a worker process that are running a handler.
RunningHandlers(w) ==
    Cardinality({t \in threads : t.w = w /\ t.st = "running"}) + zombies[w]

\* C13: across connection losses and reconnects, a worker process never has
\* more than one handler task running and never holds more than one
\* unacknowledged delivery.
C13_OneHandlerPerWorker ==
    \A w \in Workers :
        /\ RunningHandlers(w) <= 1
        /\ Cardinality({d \in unacked : d.w = w}) <= 1

\* C8: the no-worker error is not raised at a poll that read a completed
\* count equal to the dispatched count.
C8_RaiseOnlyWhileOutstanding ==
    pc = "raised" => queue_size # frame_chunks

(***************************************************************************)
(* The wait loop alone (SpecWait): every poll may read any depth and any   *)
(* consumer count, and takes 1..MaxPollSecs seconds (time.sleep(1.0) plus  *)
(* the broker round trips).                                                *)
(***************************************************************************)
InitWait ==
    /\ NoAux
    /\ pc = "wait"
    /\ stage = NumStages
    /\ frame_chunks \in 1..MaxChunks
    /\ published = frame_chunks
    /\ queue_size \in 0..MaxChunks
    /\ no_worker_period = None
    /\ workQ = <<>>
    /\ respQ = <<>>
    /\ unacked = {}
    /\ wstate = [w \in Workers |-> "connecting"]
    /\ conn = [w \in Workers |-> 0]
    /\ threads = {}
    /\ zombies = [w \in Workers |-> 0]
    /\ handled = {}
    /\ failed = 0
    /\ foreign = 0
    /\ zeroFor = None
    /\ resets = FALSE
    /\ NoCache

PollAny ==
    \E size \in 0..MaxChunks, num_workers \in 0..NumWorkers, secs \in 1..MaxPollSecs :
        /\ PollBody(size, num_workers, secs)
        /\ zeroFor' = IF num_workers # 0 THEN None
                      ELSE IF zeroFor = None THEN 0 ELSE zeroFor + secs
        /\ resets' = (resets \/ (num_workers # 0 /\ zeroFor # None))

NextWait ==
    \/ PollAny
    \/ LoopExit

SpecWait == InitWait /\ [][NextWait]_vars

\* C6: while every poll sees no consumer the loop goes on only as long as
\* the time since the first such poll is within NO_WORKER_TIMEOUT, and the
\* error is raised no later than one poll after the timeout has elapsed.
C6_RaisesWithinOnePoll ==
    /\ (pc = "wait" /\ zeroFor # None) => zeroFor <= NO_WORKER_TIMEOUT
    /\ pc = "raised" => (zeroFor # None /\ zeroFor <= NO_WORKER_TIMEOUT + MaxPollSecs)

C6_Witness ==
    pc = "raised" /\ zeroFor = NO_WORKER_TIMEOUT + 1 /\ queue_size # frame_chunks

\* C7: a poll that sees a consumer clears the timer, and the error is raised
\* only after polls that all saw no consumer for longer than NO_WORKER_TIMEOUT.
C7_IntermittentWorkersReset ==
    /\ zeroFor = None => no_worker_period = None
    /\ pc = "raised" => zeroFor > NO_WORKER_TIMEOUT

C7_Witness ==
    pc = "raised" /\ resets /\ zeroFor > NO_WORKER_TIMEOUT

(***************************************************************************)
(* The workers and the broker alone (SpecWorker): other clients of the     *)
(* broker publish any body to the work queue.                              *)
(***************************************************************************)
InitWorker ==
    /\ NoAux
    /\ pc = "done"
    /\ stage = NumStages
    /\ frame_chunks = 0
    /\ published = 0
    /\ queue_size = 0
    /\ no_worker_period = None
    /\ workQ = <<>>
    /\ respQ = <<>>
    /\ unacked = {}
    /\ wstate = [w \in Workers |-> "connecting"]
    /\ conn = [w \in Workers |-> 0]
    /\ threads = {}
    /\ zombies = [w \in Workers |-> 0]
    /\ handled = {}
    /\ failed = 0
    /\ foreign = 0
    /\ zeroFor = None
    /\ resets = FALSE
    /\ NoCache

\* basic_publish to QUEUE_NAME by a client that is not the controller.
EnvPublish(b) ==
    /\ foreign < MaxForeign
    /\ foreign' = foreign + 1
    /\ workQ' = basic_publish(workQ, b)
    /\ UNCHANGED <<cacheVars, auxVars, respQ, unacked, workerVars, ctrlVars, handled, failed, zeroFor, resets>>

NextWorker ==
    \/ \E b \in ForeignBodies \cup {JobBody(1, 1)} : EnvPublish(b)
    \/ WorkerNext

SpecWorker == InitWorker /\ [][NextWorker]_vars

\* C10: whatever the body, a delivery on an open channel is either still
\* being handled or has been settled by one ack or one reject (reject when
\* parsing, dispatch or the handler raised): none is left unacknowledged
\* with no handler thread or scheduled callback to settle it.
C10_EveryDeliverySettled ==
    \A d \in unacked :
        ChannelOpen(d.w, d.ch) =>
            \E t \in threads : t.w = d.w /\ t.ch = d.ch /\ t.body = d.body

(***************************************************************************)
(* Runs in which worker 1 is connected from the start and stays connected  *)
(* (the other workers come and go).                                        *)
(***************************************************************************)
InitSteady ==
    /\ NoAux
    /\ pc = "stage"
    /\ stage = 1
    /\ frame_chunks = 0
    /\ published = 0
    /\ queue_size = 0
    /\ no_worker_period = None
    /\ workQ = <<>>
    /\ respQ = <<>>
    /\ unacked = {}
    /\ wstate = [w \in Workers |-> IF w = 1 THEN "consuming" ELSE "connecting"]
    /\ conn = [w \in Workers |-> IF w = 1 THEN 1 ELSE 0]
    /\ threads = {}
    /\ zombies = [w \in Workers |-> 0]
    /\ handled = {}
    /\ failed = 0
    /\ foreign = 0
    /\ zeroFor = None
    /\ resets = FALSE
    /\ NoCache

SteadyWorkerNext ==
    \/ \E w \in Workers : Connect(w)
    \/ \E w \in Workers \ {1} : ConnectionLost(w)
    \/ \E w \in Workers \ {1} : ClosedByBroker(w)
    \/ \E w \in Workers : callback(w)
    \/ \E w \in Workers : ThreadEnds(w)
    \/ \E t \in threads : success(t)

(***************************************************************************)
(* SpecHappy: no handler raises.  The controller keeps running, the broker *)
(* delivers to a consumer that is free, every handler returns and every    *)
(* connection's I/O loop runs the callbacks scheduled on it.               *)
(***************************************************************************)
NextHappy ==
    \/ StartStage
    \/ Publish
    \/ Poll
    \/ LoopExit
    \/ SteadyWorkerNext
    \/ \E t \in threads : Handle(t, FALSE, 0)

FairHappy ==
    /\ WF_vars(StartStage)
    /\ WF_vars(Publish)
    /\ WF_vars(Poll)
    /\ WF_vars(LoopExit)
    /\ \A w \in Workers : WF_vars(callback(w))
    /\ \A w \in Workers : WF_vars(\E t \in threads : t.w = w /\ Handle(t, FALSE, 0))
    /\ \A w \in Workers : WF_vars(\E t \in threads : t.w = w /\ success(t))

SpecHappy == InitSteady /\ [][NextHappy]_vars /\ FairHappy

NoMissingStep ==
    pc = "stage" /\ (stage' # stage \/ pc' # pc) /\ frame_chunks' = 0

\* C18: when the checker reports no missing chunk, run_halted_queue returns
\* at once: nothing is published, the wait loop is not entered, and the
\* broker is left with both queues purged and nothing else changed.
C18_NoMissingReturnsAtOnce ==
    /\ [](pc \in {"publish", "wait"} => frame_chunks > 0)
    /\ [][NoMissingStep =>
             /\ pc' \in {"stage", "done"}
             /\ published' = 0
             /\ workQ' = <<>>
             /\ respQ' = <<>>
             /\ unacked' = unacked
             /\ queue_size' = queue_size]_vars

\* The last stage found nothing missing and the run ended.
C18_Witness ==
    /\ pc = "done"
    /\ frame_chunks = 0
    /\ published = 0
    /\ queue_size > 0

\* C20: one message is published per missing chunk, in the order of the
\* list, each with its own chunk's bounds, and the count the wait loop
\* compares with is the number of messages published.
C20_OneMessagePerChunk ==
    /\ [](pc = "publish" => published < frame_chunks)
    /\ [](pc = "wait" => published = frame_chunks)
    /\ [][(pc = "publish" /\ published' # published) =>
             /\ published' = published + 1
             /\ workQ' = Append(workQ, JobBody(stage, published'))]_vars

\* All messages of a stage published, none consumed yet.
C20_Witness ==
    /\ pc = "wait"
    /\ frame_chunks = MaxChunks
    /\ workQ = [k \in 1..MaxChunks |-> JobBody(stage, k)]

(***************************************************************************)
(* SpecRerun: the run starts on a broker an aborted earlier run has left   *)
(* behind.  One job of that run is still queued, another is delivered to   *)
(* worker 1 and being handled.  No handler raises.                         *)
(***************************************************************************)
\* A job of the earlier run (stage 0 stands for it).
StaleBody(c) == [JobBody(1, c) EXCEPT !.stage = 0]

InitRerun ==
    /\ NoAux
    /\ pc = "stage"
    /\ stage = 1
    /\ frame_chunks = 0
    /\ published = 0
    /\ queue_size = 0
    /\ no_worker_period = None
    /\ workQ = <<StaleBody(2)>>
    /\ respQ = <<>>
    /\ unacked = {[w |-> 1, ch |-> 1, body |-> StaleBody(1)]}
    /\ wstate = [w \in Workers |-> IF w = 1 THEN "consuming" ELSE "connecting"]
    /\ conn = [w \in Workers |-> IF w = 1 THEN 1 ELSE 0]
    /\ threads = {[w |-> 1, ch |-> 1, body |-> StaleBody(1), st |-> "running"]}
    /\ zombies = [w \in Workers |-> 0]
    /\ handled = {}
    /\ failed = 0
    /\ foreign = 0
    /\ zeroFor = None
    /\ resets = FALSE
    /\ NoCache

SpecRerun == InitRerun /\ [][NextHappy]_vars

\* C12: once a stage has purged both queues, no job published before the
\* purge is held or completed by a worker during the stage, and the tokens
\* the stage counts all come from jobs of the stage.
C12_PurgeDiscardsLeftovers ==
    pc \in {"publish", "wait"} =>
        /\ \A d \in unacked : d.body.stage = stage
        /\ \A b \in handled : b.stage = stage
        /\ Len(respQ) <= Cardinality({b \in handled : b.stage = stage})

(***************************************************************************)
(* SpecPoison: the job of chunk 1 raises on every attempt, every other job *)
(* succeeds on its first attempt.                                          *)
(***************************************************************************)
IsPoison(b) == b.chunk = 1

NextPoison ==
    \/ StartStage
    \/ Publish
    \/ Poll
    \/ SteadyWorkerNext
    \/ \E t \in threads : Handle(t, IsPoison(t.body), MaxAttempts)
    \/ \E t \in threads : failure(t)

SpecPoison == InitSteady /\ [][NextPoison]_vars

\* C9: with one job that always raises and a worker that is always a
\* consumer, the wait loop never reaches its exit test with the counts equal
\* and never raises, and the failing job never leaves the broker: it is
\* there to be retried again after every failure.
C9_PoisonMessageHang ==
    /\ pc # "raised"
    /\ pc = "wait" =>
         /\ queue_size # frame_chunks
         /\ Copies(JobBody(stage, 1)) >= 1

C9_Witness ==
    /\ pc = "wait"
    /\ failed = MaxAttempts
    /\ frame_chunks = MaxChunks
    /\ Len(respQ) = MaxChunks - 1
    /\ queue_size = MaxChunks - 1

\* A step in which a delivery is acknowledged: it leaves the unacknowledged
\* set and is not put back on the work queue.
AckStep == (\E d \in unacked : unacked' = unacked \ {d}) /\ workQ' = workQ

\* A step in which one completion token is published.
TokenStep == respQ' = Append(respQ, Completed)

InitRun ==
    /\ run_stage \in [Stages -> BOOLEAN]
    /\ job = NoJob
    /\ broker = "up"
    /\ render = NoRender
    /\ other = NoOther
    /\ calc = NoCalc
    /\ pc = NextStagePc(0)
    /\ stage = NextStage(0)
    /\ frame_chunks = 0
    /\ published = 0
    /\ queue_size = 0
    /\ no_worker_period = None
    /\ workQ = <<>>
    /\ respQ = <<>>
    /\ unacked = {}
    /\ wstate = [w \in Workers |-> "connecting"]
    /\ conn = [w \in Workers |-> 0]
    /\ threads = {}
    /\ zombies = [w \in Workers |-> 0]
    /\ handled = {}
    /\ failed = 0
    /\ foreign = 0
    /\ zeroFor = None
    /\ resets = FALSE
    /\ NoCache

\* An iteration of the wait loop on a slow broker, reading any depth and
\* any consumer count.
PollSlow ==
    \E size \in 0..MaxChunks, num_workers \in 0..NumWorkers :
        /\ PollBody(size, num_workers, SlowPollSecs)
        /\ zeroFor' = IF num_workers # 0 THEN None
                      ELSE IF zeroFor = None THEN 0 ELSE zeroFor + SlowPollSecs
        /\ resets' = (resets \/ (num_workers # 0 /\ zeroFor # None))

NextRun ==
    \/ StartStage
    \/ Publish
    \/ PollSlow
    \/ LoopExit

SpecRun == InitRun /\ [][NextRun]_vars

\* C21: Pipeline.run invokes the stages whose flag is set and no other, each
\* once and in the order of the list; a stage starts only when the enabled
\* stage before it has returned, and nothing is purged or published for a
\* stage whose flag is not set.
C21_EnabledStagesInOrder ==
    /\ [](pc \in {"stage", "publish", "wait", "raised"} => run_stage[stage])
    /\ [](pc = "done" => \A i \in Stages : i > stage => ~ run_stage[i])
    /\ [](\A k \in 1..Len(workQ) : workQ[k].stage \in Stages /\ run_stage[workQ[k].stage])
    /\ [][pc' = "stage" => stage' > stage]_vars
    /\ [][stage' # stage =>
             /\ stage' > stage
             /\ pc' = "stage"
             /\ run_stage[stage']
             /\ \A i \in Stages : (stage < i /\ i < stage') => ~ run_stage[i]
             /\ \/ pc = "wait" /\ queue_size = frame_chunks
                \/ pc = "stage" /\ frame_chunks' = 0]_vars

\* A run that skipped a disabled stage, ran a later one and returned.
C21_Witness ==
    /\ pc = "done"
    /\ published > 0
    /\ run_stage[stage]
    /\ \E i \in Stages : i < stage /\ ~ run_stage[i]

(***************************************************************************)
(* worker.py: the handlers of handle_message, statement by statement       *)
(* (SpecHandlers), for a job whose roots are on S3 or are the roots       *)
(* mounted in the worker.  A dict is a function from its keys.  A handler  *)
(* is the sequence of its statements that bind or write a dict, transfer   *)
(* to or from the roots of the worker, delete them, or bind ran_download / *)
(* ran_upload; the other calls are points where it can raise.              *)
(* DOCKER_OUTPUT_ROOT lies inside DOCKER_INPUT_ROOT (config.py).           *)
(***************************************************************************)
\* json.loads(body.decode("utf-8")) of a body that is the text of an object.
loads(b) == [k \in (DOMAIN b) \ {"json"} |-> b[k]]

\* json.dumps(msg)
dumps(d) == [k \in (DOMAIN d) \cup {"json"} |-> IF k = "json" THEN TRUE ELSE d[k]]

\* d[key] = val
SetItem(d, key, val) == [k \in (DOMAIN d) \cup {key} |-> IF k = key THEN val ELSE d[k]]

\* The statements.
Stmt(op, to, from, key, val) == [op |-> op, to |-> to, from |-> from, key |-> key, val |-> val]
\* to = copy(from)
Copy(to, from) == Stmt("copy", to, from, "", "")
\* on[key] = val
Assign(on, key, val) == Stmt("set", on, "", key, val)
\* name = fn(...) or name |= fn(...); name "_" when the result is dropped
Bind(name, mode, fn) == Stmt("bind", name, mode, fn, "")
\* run_command of the binary, or resize_frames: writes below both roots
RunCommand == Stmt("run_command", "", "", "", "")
\* _clean_worker(ran_download, ran_upload)
Clean == Stmt("_clean_worker", "", "", "", "")
\* return ran_download, ran_upload
ReturnRan == Stmt("return_ran", "", "", "", "")
\* copy_image_level(...): copy_frame of every frame
CopyFrame == Stmt("copy_frame", "", "", "", "")
\* the loop of _run_bin over root_order
Replace == Stmt("replace", "", "", "", "")
\* any other call
Call == Stmt("call", "", "", "", "")

\* config.py: the input root as the worker's container sees it.
DOCKER_INPUT_ROOT == "/app/facebook360_dep/project"

\* The values of msg["input_root"]: a bucket, or, for a root that is local
\* or on Samba, the mounted root (render.py, lines 152-154).  An address is
\* held as the two parts address.split("://") gives.
InputRoots ==
    {[scheme |-> "s3", ip_path |-> "bucket/project"], [scheme |-> "", ip_path |-> DOCKER_INPUT_ROOT]}

\* network.py, Address.__init__: the protocol of an address, None without
\* a "://".
protocol(address) == IF address.scheme = "" THEN "None" ELSE address.scheme

\* download and upload running their command whatever the scheme.
ReturnsAnyScheme(fn, remote) ==
    IF fn \in {"download_rig", "download", "upload_image_type", "upload"} THEN "True" ELSE "False"

\* network.py: what the download and upload functions return.
\* download_image_type ends in "return False" on every path (line 449);
\* download and upload return True only after their aws command.
Returns(fn, remote) ==
    CASE fn = "download_rig" -> IF protocol(remote) = "s3" THEN "True" ELSE "False"
      [] fn = "download" -> IF protocol(remote) = "s3" THEN "True" ELSE "False"
      [] fn = "upload_image_type" -> IF protocol(remote) = "s3" THEN "True" ELSE "False"
      [] fn = "upload" -> IF protocol(remote) = "s3" THEN "True" ELSE "False"
      [] fn = "download_image_type" -> "False"
      [] fn = "download_image_types" -> "False"
      [] OTHER -> "False"

\* The functions that write below DOCKER_INPUT_ROOT.
Downloads(fn) == fn \in {"download_rig", "download", "download_image_type", "download_image_types"}

\* The functions that run an aws command when the address is on S3.
Transfers(fn) == Downloads(fn) \/ fn \in {"upload_image_type", "upload"}

\* os.path.exists of a root named in the message: a bucket is no path of
\* the worker, the mounted roots are its own.
RootExists(env, root) == protocol(env.msg.input_root) # "s3" /\ env[root]

\* _run_bin, lines 90-103: the roots whose occurrences in the flags are
\* replaced by the roots of the container.
Replaced(env) == {root \in {"output_root", "input_root"} : ~ RootExists(env, root)}

\* _run_bin(arg): msg_cp = copy(msg); msg_cp["last"] = ...; the roots are
\* replaced; run_command(cmd)  (its msg_cp is a local, named bin_cp here).
run_bin(arg) ==
    <<Copy("bin_cp", arg), Assign("bin_cp", "last", "frame"), Replace, RunCommand>>

\* _run_upsample(msg, run_upload): its msg_cp is a local, named up_cp here.
run_upsample(run_upload) ==
    <<Copy("up_cp", "msg"),
      Assign("up_cp", "foreground_masks_in", "local"),
      Assign("up_cp", "foreground_masks_out", "local"),
      Assign("up_cp", "background_disp", "local"),
      Bind("_", "=", "download_image_type"),
      Assign("up_cp", "background_disp", "local"),
      Bind("ran_download", "=", "download_image_types"),
      Bind("ran_download", "|=", "download_rig"),
      Assign("up_cp", "disparity", "local"),
      Assign("up_cp", "output", "local"),
      Assign("up_cp", "color", "local")>>
    \o run_bin("up_cp")
    \o (IF run_upload THEN <<Bind("ran_upload", "=", "upload_image_type")>> ELSE <<>>)
    \o <<ReturnRan>>

generate_foreground_masks_callback ==
    <<Bind("ran_download", "=", "download_rig"),
      Bind("ran_download", "|=", "download_image_types"),
      Bind("ran_download", "|=", "download_image_type"),
      Copy("msg_cp", "msg"),
      Assign("msg_cp", "color", "local"),
      Assign("msg_cp", "background_color", "local"),
      Assign("msg_cp", "foreground_masks", "local")>>
    \o run_bin("msg_cp")
    \o <<Bind("ran_upload", "=", "upload_image_type"), Clean>>

resize_images_callback ==
    <<Bind("ran_download", "=", "download_rig"),
      Bind("ran_download", "|=", "download_image_types"),
      Call,
      RunCommand,
      Bind("ran_upload", "=", "upload_image_type"),
      Clean>>

depth_estimation_callback ==
    <<Bind("ran_download", "=", "False"),
      Copy("msg_cp", "msg"),
      Bind("ran_download", "|=", "download_image_type"),
      Assign("msg_cp", "color", "local"),
      Assign("msg_cp", "output_root", "background"),
      Bind("ran_download", "|=", "download_rig"),
      Bind("ran_download", "|=", "download_image_types")>>
    \o run_bin("msg_cp")
    \o <<Bind("ran_upload", "=", "upload_image_type"), Clean>>

temporal_filter_callback ==
    <<Copy("msg_cp", "msg"),
      Call,
      Bind("ran_download", "=", "download_rig"),
      Bind("ran_download", "|=", "download_image_types"),
      Assign("msg_cp", "disparity", "")>>
    \o run_bin("msg_cp")
    \o <<Call, Bind("ran_upload", "=", "upload_image_type"), Clean>>

\* get_cameras downloads the rig when msg["cameras"] is empty; the frames
\* are copied from root to root.
transfer_callback == <<Bind("_", "=", "download_rig"), Call, CopyFrame>>

upsample_disparity_callback == run_upsample(TRUE) \o <<Clean>>

\* The handler writing msg["app"] where the code writes msg_cp["app"].
upsample_layer_disparity_callbackInPlace ==
    <<Copy("msg_cp", "msg"),
      Assign("msg", "app", "UpsampleDisparity")>>
    \o run_upsample(FALSE)
    \o <<Bind("ran_download", "|=", "download_image_type"),
         Assign("msg", "app", "LayerDisparities")>>
    \o run_bin("msg_cp")
    \o <<Bind("ran_upload", "=", "upload_image_type"), Clean>>

upsample_layer_disparity_callback ==
    <<Copy("msg_cp", "msg"),
      Assign("msg_cp", "app", "UpsampleDisparity")>>
    \o run_upsample(FALSE)
    \o <<Bind("ran_download", "|=", "download_image_type"),
         Assign("msg_cp", "app", "LayerDisparities"),
         Assign("msg_cp", "background_disp", "local"),
         Assign("msg_cp", "foreground_disp", "local"),
         Assign("msg_cp", "output", "local")>>
    \o run_bin("msg_cp")
    \o <<Bind("ran_upload", "=", "upload_image_type"), Clean>>

\* The run_conversion branch, with the fallback to level 0 of the colors.
convert_to_binary_callback ==
    <<Copy("msg_cp", "msg"),
      Bind("ran_download", "=", "download_rig"),
      Call,
      Assign("msg_cp", "disparity", "local"),
      Assign("msg_cp", "color", "local"),
      Assign("msg_cp", "fused", ""),
      Bind("ran_download", "|=", "download_image_types"),
      Call,
      Bind("ran_download", "=", "download_image_types"),
      Assign("msg_cp", "color", "local"),
      Assign("msg_cp", "bin", "local"),
      Call>>
    \o run_bin("msg_cp")
    \o <<Bind("ran_upload", "=", "upload_image_type"),
         Bind("ran_upload", "|=", "upload"),
         Clean>>

simple_mesh_renderer_callback ==
    <<Copy("msg_cp", "msg"),
      Call,
      Bind("ran_download", "=", "download_rig"),
      Bind("ran_download", "=", "download_image_type"),
      Bind("ran_download", "|=", "download_image_type"),
      Assign("msg_cp", "color", "local"),
      Assign("msg_cp", "disparity", "local"),
      Assign("msg_cp", "output", "local"),
      Assign("msg_cp", "position", "0.0 0.0 0.0"),
      Assign("msg_cp", "forward", "-1.0 0.0 0.0"),
      Assign("msg_cp", "up", "0.0 0.0 1.0")>>
    \o run_bin("msg_cp")
    \o <<Bind("ran_upload", "=", "upload_image_type"), Clean>>

\* handle_message, lines 488-503: the handler of the first table entry that
\* msg["app"] starts with.
HandlerOf(app) ==
    CASE app = "GenerateForegroundMasks" -> generate_foreground_masks_callback
      [] app = "DerpCLI" -> depth_estimation_callback
      [] app = "TemporalBilateralFilter" -> temporal_filter_callback
      [] app = "Transfer" -> transfer_callback
      [] app = "UpsampleDisparity" -> upsample_disparity_callback
      [] app = "UpsampleLayer" -> upsample_layer_disparity_callback
      [] app = "ConvertToBinary" -> convert_to_binary_callback
      [] app = "SimpleMeshRenderer" -> simple_mesh_renderer_callback
      [] app = "Resize" -> resize_images_callback
      [] OTHER -> <<>>

\* _clean_worker as written, lines 117-120: the second test looks at
\* DOCKER_INPUT_ROOT again; shutil.rmtree of a missing directory raises.
clean_worker(env) ==
    LET rm_in == env.ran_download = "True" /\ env.input_root
        in1 == IF rm_in THEN FALSE ELSE env.input_root
        out1 == IF rm_in THEN FALSE ELSE env.output_root
        rm_out == env.ran_upload = "True" /\ in1
    IN [env EXCEPT !.input_root = in1,
                   !.output_root = IF rm_out THEN FALSE ELSE out1,
                   !.exc = rm_out /\ ~ out1]

\* name = fn(...) / name |= fn(...)
bind(env, name, mode, fn) ==
    LET remote == env.msg.input_root
        s3 == protocol(remote) = "s3"
        e == [env EXCEPT !.input_root = @ \/ (s3 /\ Downloads(fn)),
                         !.aws = @ \/ (s3 /\ Transfers(fn))]
    IN IF name = "_" THEN e
       ELSE IF mode = "=" THEN [e EXCEPT ![name] = Returns(fn, remote)]
       ELSE IF env[name] = "unbound" THEN [env EXCEPT !.exc = TRUE]
       ELSE [e EXCEPT ![name] = IF @ = "True" \/ Returns(fn, remote) = "True"
                                THEN "True" ELSE "False"]

\* network.py, copy_frame: aws s3 cp from bucket to bucket, or makedirs and
\* copyfile below the output root.
copy_frame(env) ==
    IF protocol(env.msg.input_root) = "s3"
    THEN [env EXCEPT !.aws = TRUE]
    ELSE [env EXCEPT !.output_root = TRUE]

\* The effect of one statement on the handler's names and the scratch roots.
Exec(env, stmt) ==
    CASE stmt.op = "copy" -> [env EXCEPT ![stmt.to] = env[stmt.from]]
      [] stmt.op = "set" -> [env EXCEPT ![stmt.to] = SetItem(@, stmt.key, stmt.val)]
      [] stmt.op = "bind" -> bind(env, stmt.to, stmt.from, stmt.key)
      [] stmt.op = "replace" -> [env EXCEPT !.replaced = Replaced(env)]
      [] stmt.op = "copy_frame" -> copy_frame(env)
      [] stmt.op = "run_command" -> [env EXCEPT !.input_root = TRUE, !.output_root = TRUE]
      [] stmt.op = "_clean_worker" -> clean_worker(env)
      [] stmt.op = "return_ran" ->
            [env EXCEPT !.exc = "unbound" \in {env.ran_download, env.ran_upload}]
      [] OTHER -> env

\* The job messages of any stage of Pipeline.
HandlerBodies ==
    { [json |-> TRUE, app |-> a, stage |-> s, chunk |-> c, input_root |-> r] :
        a \in app_name_to_callback, s \in Stages, c \in 1..MaxChunks, r \in InputRoots }

\* handle_message, line 484: a delivered body is parsed.  The roots of
\* the worker are empty when the job is on S3, and are the mounted
\* directories (setup.py, lines 325-341) otherwise.
InitHandlers ==
    /\ run_stage = [s \in Stages |-> TRUE]
    /\ \E b \in HandlerBodies :
         job = [NoJob EXCEPT !.body = b, !.env.msg = loads(b), !.ended = "running",
                             !.env.input_root = protocol(b.input_root) # "s3",
                             !.env.output_root = protocol(b.input_root) # "s3"]
    /\ broker = "up"
    /\ render = NoRender
    /\ other = NoOther
    /\ calc = NoCalc
    /\ pc = "done"
    /\ stage = NumStages
    /\ frame_chunks = 0
    /\ published = 0
    /\ queue_size = 0
    /\ no_worker_period = None
    /\ workQ = <<>>
    /\ respQ = <<>>
    /\ unacked = {}
    /\ wstate = [w \in Workers |-> "connecting"]
    /\ conn = [w \in Workers |-> 0]
    /\ threads = {}
    /\ zombies = [w \in Workers |-> 0]
    /\ handled = {}
    /\ failed = 0
    /\ foreign = 0
    /\ zeroFor = None
    /\ resets = FALSE
    /\ NoCache

JobUnchanged ==
    UNCHANGED <<ctrlVars, brokerVars, workerVars, histVars, cacheVars, run_stage, broker, render,
                other, calc>>

\* The next statement of the handler is executed; when it raises, lines
\* 508-510 hand msg to failure(), which publishes json.dumps(msg) (line 476).
HandlerStep ==
    /\ job.ended = "running"
    /\ job.at < Len(HandlerOf(job.env.msg.app))
    /\ LET e == Exec(job.env, HandlerOf(job.env.msg.app)[job.at + 1])
       IN job' = IF e.exc
                 THEN [job EXCEPT !.env = e, !.ended = "raised", !.out = dumps(e.msg)]
                 ELSE [job EXCEPT !.env = e, !.at = @ + 1]
    /\ JobUnchanged

\* The next statement raises before it has any effect (a missing key, a
\* failed command).
HandlerRaises ==
    /\ job.ended = "running"
    /\ job.at < Len(HandlerOf(job.env.msg.app))
    /\ job' = [job EXCEPT !.ended = "raised", !.out = dumps(job.env.msg)]
    /\ JobUnchanged

\* The handler returns: lines 505-507, success() is scheduled.
HandlerReturns ==
    /\ job.ended = "running"
    /\ job.at = Len(HandlerOf(job.env.msg.app))
    /\ job' = [job EXCEPT !.ended = "returned"]
    /\ JobUnchanged

NextHandlers ==
    \/ HandlerStep
    \/ HandlerRaises
    \/ HandlerReturns

SpecHandlers == InitHandlers /\ [][NextHandlers]_vars

\* C22: at every statement of every handler the parsed message is as it was
\* parsed (the handlers write to copies), so the body the failure path
\* republishes equals the body that was delivered.
C22_RepublishedEqualsDelivered ==
    /\ job.ended # "idle" => job.env.msg = loads(job.body)
    /\ job.ended = "raised" => job.out = job.body

\* A handler raised after it had rewritten "app" in its copy.
C22_Witness ==
    /\ job.ended = "raised"
    /\ job.body.app = "UpsampleLayer"
    /\ job.env.msg_cp # NoDict
    /\ job.env.msg_cp.app = "UpsampleDisparity"
    /\ job.env.bin_cp # NoDict

\* C26: when the handling of a job with S3 roots ends, by a return of the
\* handler (ack) or by an exception (reject), whatever the stage, neither
\* scratch root is left on the worker.
C26_ScratchWipedAfterJob ==
    (job.ended \in {"returned", "raised"} /\ protocol(job.body.input_root) = "s3")
        => (~ job.env.input_root /\ ~ job.env.output_root)

\* C33: while and after a job whose roots are local is handled, whatever
\* the stage, no storage transfer command has been run, no root that
\* exists on the worker has been replaced in the flags of the binary, and
\* the input root and the output root are still there.
C33_LocalRootsUntouched ==
    (job.ended # "idle" /\ protocol(job.body.input_root) = "None")
        => /\ ~ job.env.aws
           /\ \A root \in job.env.replaced : ~ job.env[root]
           /\ job.env.input_root
           /\ job.env.output_root

\* A handler of a local job returned after its binary ran and after
\* _clean_worker was called with ran_download and ran_upload false.
C33_Witness ==
    /\ job.ended = "returned"
    /\ protocol(job.body.input_root) = "None"
    /\ job.env.bin_cp # NoDict
    /\ job.env.ran_download = "False"
    /\ job.env.ran_upload = "False"

(***************************************************************************)
(* Who acts on the channel: the handler thread or the I/O loop.            *)
(***************************************************************************)
\* A step of a handler thread of a live connection: handle_message ends.
HandlerThreadStep ==
    /\ wstate' = wstate
    /\ \E t \in threads : t.st = "running" /\ t \notin threads'

\* A step in which the broker hands a delivery to a worker.
DeliveryStep == \E d \in unacked' : d \notin unacked

\* A step in which a delivery is settled on a live channel (ack or reject).
SettleStep == wstate' = wstate /\ \E d \in unacked : d \notin unacked'

\* C23: a delivery is only handed to a newly started handler thread, so the
\* I/O loop is not held by the handler; the handler thread itself performs
\* no channel operation; a delivery is acked or rejected, and a message is
\* published by the worker, only when the I/O loop runs the callback that
\* the thread scheduled after its handler ended.
C23_ChannelOnlyOnIOLoop ==
    /\ [][DeliveryStep =>
             \E w \in Workers :
                 LET t == [w |-> w, ch |-> conn[w], body |-> Head(workQ), st |-> "running"]
                 IN /\ threads' = threads \cup {t}
                    /\ t \notin threads
                    /\ unacked' = unacked \cup {[w |-> w, ch |-> conn[w], body |-> t.body]}]_vars
    /\ [][HandlerThreadStep => UNCHANGED brokerVars]_vars
    /\ [][SettleStep =>
             \E t \in threads :
                 /\ t.st \in {"success", "failure"}
                 /\ ChannelOpen(t.w, t.ch)
                 /\ threads' = threads \ {t}
                 /\ unacked' = unacked \ {[w |-> t.w, ch |-> t.ch, body |-> t.body]}]_vars

\* A handler has ended and its callback waits for the I/O loop, with the
\* delivery still unacknowledged, while another worker's handler runs.
C23_Witness ==
    \E t \in threads :
        /\ t.st = "failure"
        /\ [w |-> t.w, ch |-> t.ch, body |-> t.body] \in unacked
        /\ \E u \in threads : u.w # t.w /\ u.st = "running"

(***************************************************************************)
(* main_loop alone (SpecLoop): the workers on a broker whose work queue    *)
(* holds the jobs of a stage; connections fail with any broker error.      *)
(***************************************************************************)
InitLoop ==
    /\ NoAux
    /\ pc = "wait"
    /\ stage = 1
    /\ frame_chunks = MaxChunks
    /\ published = MaxChunks
    /\ queue_size = 0
    /\ no_worker_period = None
    /\ workQ = [k \in 1..MaxChunks |-> JobBody(1, k)]
    /\ respQ = <<>>
    /\ unacked = {}
    /\ wstate = [w \in Workers |-> "connecting"]
    /\ conn = [w \in Workers |-> 0]
    /\ threads = {}
    /\ zombies = [w \in Workers |-> 0]
    /\ handled = {}
    /\ failed = 0
    /\ foreign = 0
    /\ zeroFor = None
    /\ resets = FALSE
    /\ NoCache

NextLoop ==
    \/ \E w \in Workers : Connect(w)
    \/ \E w \in Workers : ConnectionLost(w)
    \/ \E w \in Workers : ClosedByBroker(w)
    \/ \E w \in Workers : callback(w)
    \/ \E t \in threads : Handle(t, FALSE, 0)
    \/ \E w \in Workers : ThreadEnds(w)
    \/ \E t \in threads : success(t)

SpecLoop == InitLoop /\ [][NextLoop]_vars

\* A connection error that is not a close initiated by the broker.
Recoverable(exc) ==
    IsInstance(exc, "AMQPConnectionError") /\ ~ IsInstance(exc, "ConnectionClosedByBroker")

\* A close initiated by the broker, or a channel error.
Fatal(exc) ==
    IsInstance(exc, "ConnectionClosedByBroker") \/ IsInstance(exc, "AMQPChannelError")

RecoverableErrors == {exc \in BrokerErrors : Recoverable(exc)}
FatalErrors == {exc \in BrokerErrors : Fatal(exc)}

\* A step in which the try block of worker w's main_loop is left.
LeavesTry(w) == wstate[w] = "consuming" /\ wstate'[w] # "consuming"

\* C24: after a connection error that is not a broker-initiated close the
\* worker is connecting again; a connecting worker can always connect (up to
\* the bound of the model on reconnections) and leaves that state only to
\* consume: it never gives up.
C24_ReconnectsAfterConnectionError ==
    /\ [][\A w \in Workers : LeavesTry(w) =>
             \A exc \in RecoverableErrors :
                 RaisedInLoop(w, exc) => wstate'[w] = "connecting"]_vars
    /\ [][\A w \in Workers :
             (wstate[w] = "connecting" /\ wstate'[w] # "connecting")
                 => (wstate'[w] = "consuming" /\ conn'[w] = conn[w] + 1)]_vars
    /\ [](\A w \in Workers :
             (wstate[w] = "connecting" /\ (conn[w] = 0 \/ Reconnects < MaxReconnects))
                 => ENABLED Connect(w))

\* A worker that lost a connection consumes again on a new one.
C24_Witness ==
    \E w \in Workers :
        /\ conn[w] >= 2
        /\ wstate[w] = "consuming"
        /\ \E d \in unacked : d.w = w /\ d.ch = conn[w]

\* C25: a broker-initiated close or a channel error ends the worker loop;
\* a worker whose loop has ended never connects or receives a delivery
\* again; and the loop ends on no other broker error.
C25_FatalErrorsEndLoop ==
    /\ [][\A w \in Workers : LeavesTry(w) =>
             \A exc \in FatalErrors : RaisedInLoop(w, exc) => wstate'[w] = "exited"]_vars
    /\ [][\A w \in Workers :
             wstate[w] = "exited" =>
                 /\ wstate'[w] = "exited"
                 /\ conn'[w] = conn[w]
                 /\ \A d \in unacked' : d.w = w => d \in unacked]_vars
    /\ [][\A w \in Workers :
             (wstate[w] # "exited" /\ wstate'[w] = "exited") =>
                 \E exc \in FatalErrors : RaisedInLoop(w, exc)]_vars

\* A worker's loop has ended while jobs are still on the work queue.
C25_Witness ==
    \E w \in Workers :
        /\ wstate[w] = "exited"
        /\ conn[w] >= 1
        /\ workQ # <<>>

(***************************************************************************)
(* The no-worker error and Pipeline.run.                                   *)
(***************************************************************************)
\* C27: once "No workers for extended time!" is raised in a stage, the
\* controller stays where the error left it: it publishes nothing more,
\* polls no more, starts no later stage and never completes the run; the
\* exception leaves run_halted_queue, the stage method and Pipeline.run.
C27_NoWorkerTimeoutAbortsRun ==
    [][pc = "raised" =>
          /\ pc' = "raised"
          /\ UNCHANGED <<stage, frame_chunks, published, queue_size, no_worker_period>>]_vars

\* The error was raised in a stage that has an enabled stage after it,
\* with published jobs not answered.
C27_Witness ==
    /\ pc = "raised"
    /\ no_worker_period # None
    /\ no_worker_period > NO_WORKER_TIMEOUT
    /\ published > 0
    /\ queue_size < frame_chunks
    /\ EnabledAfter(stage) # {}

(***************************************************************************)
(* render.py main: the local workers, the Pipeline constructor, the run    *)
(* and the end of the process, with a RabbitMQ node that can stop and      *)
(* start (SpecRender).  The workers' consumption is left out: a poll reads *)
(* any depth and any consumer count.                                       *)
(***************************************************************************)
\* queue_declare(queue=config.QUEUE_NAME): no durable argument, which pika
\* sends as durable=False.
QueueDurable == FALSE

\* properties=pika.BasicProperties(delivery_mode=2)
DeliveryMode == 2

\* What the node holds of a declared queue after it has started again: a
\* queue that is not durable is deleted with its messages, a durable queue
\* keeps its persistent messages.
Recovered(q) == IF QueueDurable /\ DeliveryMode = 2 THEN q ELSE <<>>

\* FLAGS.workers: each entry is config.LOCALHOST or the address of a remote
\* host.  The PID of worker w is w.
InitRender ==
    /\ run_stage = [s \in Stages |-> TRUE]
    /\ job = NoJob
    /\ broker \in {"up", "down"}
    /\ \E ip \in [Workers -> {"localhost", "remote"}] :
         render = [NoRender EXCEPT !.phase = "setup", !.ip = ip]
    /\ other = NoOther
    /\ calc = NoCalc
    /\ pc = "init"
    /\ stage = 0
    /\ frame_chunks = 0
    /\ published = 0
    /\ queue_size = 0
    /\ no_worker_period = None
    /\ workQ = <<>>
    /\ respQ = <<>>
    /\ unacked = {}
    /\ wstate = [w \in Workers |-> "connecting"]
    /\ conn = [w \in Workers |-> 0]
    /\ threads = {}
    /\ zombies = [w \in Workers |-> 0]
    /\ handled = {}
    /\ failed = 0
    /\ foreign = 0
    /\ zeroFor = None
    /\ resets = FALSE
    /\ NoCache

RenderUnchanged ==
    UNCHANGED <<ctrlVars, brokerVars, workerVars, histVars, cacheVars, run_stage, job, broker,
                other, calc>>

\* setup_workers: spawn_worker_local appends proc.pid to child_pids for an
\* entry on LOCALHOST; spawn_worker starts the others over ssh.
setup_workers ==
    /\ render.phase = "setup"
    /\ render' = [render EXCEPT
           !.phase = "construct",
           !.child_pids = SelectSeq([w \in Workers |-> w],
                                    LAMBDA w : render.ip[w] = "localhost"),
           !.proc = [w \in Workers |-> "running"]]
    /\ RenderUnchanged

\* Pipeline.__init__, lines 94-98: a connection is tried; when it fails
\* setup_master starts the RabbitMQ service, which comes up asynchronously.
PipelineInit ==
    /\ render.phase = "construct"
    /\ pc = "init"
    /\ broker' = IF broker = "up" THEN "up" ELSE "starting"
    /\ pc' = "await"
    /\ render' = [render EXCEPT !.phase = "pipeline"]
    /\ UNCHANGED <<stage, frame_chunks, published, queue_size, no_worker_period, brokerVars,
                   workerVars, histVars, cacheVars, run_stage, job, other, calc>>

\* Pipeline.__init__, lines 100-107: purge_queue is tried every second until
\* it succeeds; then main builds the stage list and calls Pipeline.run.
AwaitQueue ==
    /\ pc = "await"
    /\ broker = "up"
    /\ workQ' = purge_queue(workQ)
    /\ pc' = NextStagePc(0)
    /\ stage' = NextStage(0)
    /\ UNCHANGED <<frame_chunks, published, queue_size, no_worker_period, respQ, unacked,
                   workerVars, histVars, cacheVars, auxVars>>

\* run_halted_queue, lines 184-186, 201 and 232-235: pika raises when the
\* node cannot be reached or the connection is gone; nothing in
\* run_halted_queue, the stage methods or Pipeline.run catches it.
BrokerUnreachable ==
    /\ pc \in {"stage", "publish", "wait"}
    /\ pc = "wait" => queue_size # frame_chunks
    /\ broker # "up"
    /\ pc' = "raised"
    /\ UNCHANGED <<stage, frame_chunks, published, queue_size, no_worker_period, brokerVars,
                   workerVars, histVars, cacheVars, auxVars>>

\* The RabbitMQ node stops.
BrokerStops ==
    /\ render.phase # "exited"
    /\ broker = "up"
    /\ broker' = "down"
    /\ UNCHANGED <<ctrlVars, brokerVars, workerVars, histVars, cacheVars, run_stage, job, render, other, calc>>

\* The node has started (again), with what it recovers of the two queues.
\* A controller inside a stage finds its connection gone at its next
\* publish or poll, before or after the node is back: the model takes that
\* step first.
BrokerStarts ==
    /\ render.phase # "exited"
    /\ broker \in {"down", "starting"}
    /\ pc \notin {"publish", "wait"}
    /\ broker' = "up"
    /\ workQ' = Recovered(workQ)
    /\ respQ' = Recovered(respQ)
    /\ unacked' = {}
    /\ UNCHANGED <<ctrlVars, workerVars, histVars, cacheVars, run_stage, job, render, other, calc>>

\* A local worker process ends (main_loop breaks, or the process dies).
WorkerProcessExits(w) ==
    /\ render.phase \in {"construct", "pipeline"}
    /\ render.ip[w] = "localhost"
    /\ render.proc[w] = "running"
    /\ render' = [render EXCEPT !.proc[w] = "exited"]
    /\ RenderUnchanged

\* spawn_worker_local drops its Popen object; subprocess reaps an ended
\* child of a dropped Popen when the controller next creates a Popen
\* (run_command), after which the PID names no process.
WorkerProcessReaped(w) ==
    /\ render.phase \in {"construct", "pipeline"}
    /\ render.proc[w] = "exited"
    /\ render' = [render EXCEPT !.proc[w] = "reaped"]
    /\ RenderUnchanged

\* cleanup_workers: os.kill(child_pid, SIGTERM) in list order; os.kill of a
\* PID that names no process raises ProcessLookupError, which ends the loop.
cleanup_workers(r) ==
    LET gone == {i \in 1..Len(r.child_pids) : r.proc[r.child_pids[i]] = "reaped"}
        n == IF gone = {} THEN Len(r.child_pids)
             ELSE (CHOOSE i \in gone : \A j \in gone : i <= j) - 1
    IN {r.child_pids[i] : i \in 1..n}

\* render.py main, lines 216-217: pipeline.run returned, cleanup_workers.
MainReturns ==
    /\ render.phase = "pipeline"
    /\ pc = "done"
    /\ render' = [render EXCEPT !.phase = "exited", !.how = "normal",
                                !.signalled = cleanup_workers(render)]
    /\ RenderUnchanged

\* render.py main, line 216: an exception leaves pipeline.run; line 217 is
\* not reached and nothing up to app.run calls cleanup_workers.
MainRaises ==
    /\ render.phase = "pipeline"
    /\ pc = "raised"
    /\ render' = [render EXCEPT !.phase = "exited", !.how = "error"]
    /\ RenderUnchanged

\* setup.py sigterm_handler -> terminate_handler: cleanup_workers, then
\* sys.exit(0).
sigterm_handler ==
    /\ render.phase \in {"construct", "pipeline"}
    /\ render' = [render EXCEPT !.phase = "exited", !.how = "signal",
                                !.signalled = cleanup_workers(render)]
    /\ RenderUnchanged

NextRender ==
    \/ setup_workers
    \/ PipelineInit
    \/ AwaitQueue
    \/ render.phase = "pipeline" /\ broker = "up" /\ StartStage
    \/ render.phase = "pipeline" /\ broker = "up" /\ Publish
    \/ render.phase = "pipeline" /\ broker = "up" /\ PollSlow
    \/ render.phase = "pipeline" /\ LoopExit
    \/ render.phase = "pipeline" /\ BrokerUnreachable
    \/ BrokerStops
    \/ BrokerStarts
    \/ \E w \in Workers : WorkerProcessExits(w)
    \/ \E w \in Workers : WorkerProcessReaped(w)
    \/ MainReturns
    \/ MainRaises
    \/ sigterm_handler

SpecRender == InitRender /\ [][NextRender]_vars

\* C28: when the node is unreachable at the start of a stage the controller
\* does not raise: it starts a local node, and it purges and publishes only
\* once the node is reachable.
C28_UnreachableBrokerAtStageStart ==
    /\ [][published' # published => broker = "up"]_vars
    /\ [][(pc = "stage" /\ broker # "up") => pc' # "raised"]_vars

\* C29: job messages are published with delivery_mode 2, and when the node
\* has started again the work queue holds every message it held when the
\* node stopped.
C29_UndeliveredWorkSurvivesRestart ==
    /\ DeliveryMode = 2
    /\ [][(broker # "up" /\ broker' = "up") => workQ' = workQ]_vars

\* C30: every worker spawned on LOCALHOST is in child_pids; a remote worker
\* is neither recorded nor signalled; and when main has ended, by return,
\* by a caught signal or by an error of the pipeline, every recorded PID was
\* sent SIGTERM, also the PIDs of workers that had ended.
C30_RecordedPidsSignalledAtRunEnd ==
    /\ render.phase \notin {"setup"} =>
          \A w \in Workers :
              (render.ip[w] = "localhost") <=> (\E i \in 1..Len(render.child_pids) : render.child_pids[i] = w)
    /\ \A w \in render.signalled : render.ip[w] = "localhost"
    /\ render.phase = "exited" =>
          \A i \in 1..Len(render.child_pids) : render.child_pids[i] \in render.signalled

(***************************************************************************)
(* Two Pipeline processes on one RabbitMQ node (SpecTwoRuns).  Both run    *)
(* run_halted_queue on config.QUEUE_NAME and config.RESPONSE_QUEUE_NAME.   *)
(* The first is in its last stage; the second runs one stage, and its jobs *)
(* are the bodies StaleBody(c).  Worker 1 consumes, no handler raises.     *)
(***************************************************************************)
InitTwoRuns ==
    /\ run_stage = [s \in Stages |-> TRUE]
    /\ job = NoJob
    /\ broker = "up"
    /\ render = NoRender
    /\ other = [NoOther EXCEPT !.pc = "stage"]
    /\ calc = NoCalc
    /\ pc = "stage"
    /\ stage = NumStages
    /\ frame_chunks = 0
    /\ published = 0
    /\ queue_size = 0
    /\ no_worker_period = None
    /\ workQ = <<>>
    /\ respQ = <<>>
    /\ unacked = {}
    /\ wstate = [w \in Workers |-> IF w = 1 THEN "consuming" ELSE "connecting"]
    /\ conn = [w \in Workers |-> IF w = 1 THEN 1 ELSE 0]
    /\ threads = {}
    /\ zombies = [w \in Workers |-> 0]
    /\ handled = {}
    /\ failed = 0
    /\ foreign = 0
    /\ zeroFor = None
    /\ resets = FALSE
    /\ NoCache

OtherUnchanged ==
    UNCHANGED <<ctrlVars, unacked, workerVars, histVars, cacheVars, run_stage, job, broker,
                render, calc>>

\* run_halted_queue of the second process, lines 184-197.
OtherStartStage ==
    /\ other.pc = "stage"
    /\ workQ' = purge_queue(workQ)
    /\ respQ' = purge_queue(respQ)
    /\ \E n \in 0..MaxChunks :
         other' = [pc |-> IF n = 0 THEN "done" ELSE "publish",
                   frame_chunks |-> n, published |-> 0, queue_size |-> 0]
    /\ OtherUnchanged

\* Lines 199-213 of the second process.
OtherPublish ==
    /\ other.pc = "publish"
    /\ workQ' = basic_publish(workQ, StaleBody(other.published + 1))
    /\ other' = IF other.published + 1 = other.frame_chunks
                THEN [other EXCEPT !.published = @ + 1, !.pc = "wait",
                                   !.queue_size = Len(respQ)]
                ELSE [other EXCEPT !.published = @ + 1]
    /\ UNCHANGED respQ
    /\ OtherUnchanged

\* Lines 230-235 of the second process (worker 1 is a consumer at every
\* poll, so its no_worker_period stays None).
OtherPoll ==
    /\ other.pc = "wait"
    /\ other.queue_size # other.frame_chunks
    /\ other' = [other EXCEPT !.queue_size = Len(respQ)]
    /\ UNCHANGED <<workQ, respQ>>
    /\ OtherUnchanged

\* Line 230 false: run_halted_queue of the second process returns.
OtherLoopExit ==
    /\ other.pc = "wait"
    /\ other.queue_size = other.frame_chunks
    /\ other' = [other EXCEPT !.pc = "done"]
    /\ UNCHANGED <<workQ, respQ>>
    /\ OtherUnchanged

NextTwoRuns ==
    \/ StartStage
    \/ Publish
    \/ Poll
    \/ LoopExit
    \/ OtherStartStage
    \/ OtherPublish
    \/ OtherPoll
    \/ OtherLoopExit
    \/ callback(1)
    \/ \E t \in threads : Handle(t, FALSE, 0)
    \/ \E t \in threads : success(t)

SpecTwoRuns == InitTwoRuns /\ [][NextTwoRuns]_vars

\* A job the second process published that is neither with the broker nor
\* handled: it was removed by the purge of the first process.
OtherJobPurged(c) ==
    /\ c \in 1..other.published
    /\ Copies(StaleBody(c)) = 0
    /\ StaleBody(c) \notin handled

\* C31: the purge with which either process starts a stage empties both
\* queues whichever process published what they hold, and the count either
\* process reads at a poll is the depth of the one response queue, whichever
\* process's jobs the tokens were published for: the runs are not isolated.
C31_RunsShareQueues ==
    /\ [][(pc = "stage" /\ pc' # "stage") => (workQ' = <<>> /\ respQ' = <<>>)]_vars
    /\ [][(other.pc = "stage" /\ other'.pc # "stage") => (workQ' = <<>> /\ respQ' = <<>>)]_vars
    /\ [][queue_size' # queue_size => queue_size' = Len(respQ)]_vars
    /\ [][other'.queue_size # other.queue_size => other'.queue_size = Len(respQ)]_vars
    /\ [](\A i \in 1..Len(respQ) : respQ[i] = Completed)

\* Both interleavings have happened: a job of the second process was purged
\* by the first, and the first is returning from its stage, having counted a
\* token of the second, with a chunk of its own not handled.
C31_Witness ==
    /\ \E c \in 1..MaxChunks : OtherJobPurged(c)
    /\ Returning
    /\ \E c \in 1..frame_chunks : JobBody(stage, c) \notin handled
    /\ \E c \in 1..MaxChunks : StaleBody(c) \in handled

(***************************************************************************)
(* The frame and level arithmetic of render.py and pipeline.py, one call   *)
(* at a time on the flags of a render (SpecCalc).                          *)
(***************************************************************************)
MaxLevel == 2          \* coarsest pyramid level of the flags drawn

\* The 6-character decimal numeral of n < 1000000, digit by digit.
Decimal6(n) ==
    [k \in 1..6 |->
        DigitChars[((n \div (CASE k = 1 -> 100000 [] k = 2 -> 10000 [] k = 3 -> 1000
                               [] k = 4 -> 100 [] k = 5 -> 10 [] OTHER -> 1)) % 10) + 1]]

\* Frame numbers of the flags drawn: windows of NumFrames + 1 frames at 0,
\* where the numerals get a digit longer, and below 1000000.
FrameWindows == {0, 9, 99, 999999 - NumFrames}

\* FLAGS of a render: --first <= --last, --chunk_size >= 1, time_radius >= 0,
\* level_start, level_end, coarsest_batch_levels, do_temporal_filter.
CalcFlags ==
    { [first |-> b + f, last |-> b + l, chunk_size |-> k, time_radius |-> r,
       level_start |-> ls, level_end |-> le, coarsest_batch |-> cb,
       do_temporal_filter |-> tf] :
        b \in FrameWindows,
        f \in 0..NumFrames, l \in 0..NumFrames,
        k \in 1..MaxChunkSize, r \in 0..NumFrames,
        ls \in 0..MaxLevel, le \in 0..MaxLevel, cb \in 0..MaxLevel,
        tf \in BOOLEAN }

InitCalc ==
    /\ run_stage = [s \in Stages |-> TRUE]
    /\ job = NoJob
    /\ broker = "up"
    /\ render = NoRender
    /\ other = NoOther
    /\ \E a \in {x \in CalcFlags : x.first <= x.last /\ x.level_end <= x.level_start} :
         calc = [fn |-> "flags", args |-> a, out |-> <<>>]
    /\ pc = "init"
    /\ stage = 0
    /\ frame_chunks = 0
    /\ published = 0
    /\ queue_size = 0
    /\ no_worker_period = None
    /\ workQ = <<>>
    /\ respQ = <<>>
    /\ unacked = {}
    /\ wstate = [w \in Workers |-> "connecting"]
    /\ conn = [w \in Workers |-> 0]
    /\ threads = {}
    /\ zombies = [w \in Workers |-> 0]
    /\ handled = {}
    /\ failed = 0
    /\ foreign = 0
    /\ zeroFor = None
    /\ resets = FALSE
    /\ NoCache

CalcUnchanged ==
    UNCHANGED <<ctrlVars, brokerVars, workerVars, histVars, cacheVars, run_stage, job, broker,
                render, other>>

\* get_frame_range(FLAGS.first, FLAGS.last), as verify_inputs and the
\* cache checker call it on frame names.
CallGetFrameRange ==
    /\ calc.fn = "flags"
    /\ calc' = [calc EXCEPT
           !.fn = "get_frame_range",
           !.out = get_frame_range(Decimal6(calc.args.first), Decimal6(calc.args.last))]
    /\ CalcUnchanged

CallFrameChunks ==
    /\ calc.fn = "flags"
    /\ calc' = [calc EXCEPT
           !.fn = "frame_chunks",
           !.out = FrameChunks(calc.args.first, calc.args.last, calc.args.chunk_size)]
    /\ CalcUnchanged

max(a, b) == IF a >= b THEN a ELSE b
min(a, b) == IF a <= b THEN a ELSE b

\* filter_ranges with the chunk's own bounds as the filter bounds.
filter_rangesNoRadius(first, last, chunks, time_radius) ==
    [i \in 1..Len(chunks) |->
        [first |-> chunks[i].first,
         last |-> chunks[i].last,
         filter_first |-> get_frame_name(max(int(first), int(chunks[i].first))),
         filter_last |-> get_frame_name(min(int(last), int(chunks[i].last)))]]

\* Pipeline.depth_estimation, lines 343-362: filter_ranges.
filter_ranges(first, last, chunks, time_radius) ==
    [i \in 1..Len(chunks) |->
        [first |-> chunks[i].first,
         last |-> chunks[i].last,
         filter_first |->
            get_frame_name(max(int(first), int(chunks[i].first) - time_radius)),
         filter_last |->
            get_frame_name(min(int(last), int(chunks[i].last) + time_radius))]]

\* depth_estimation builds filter_ranges from self.frame_chunks and the
\* first, last and time_radius of the params.
CallFilterRanges ==
    /\ calc.fn = "flags"
    /\ calc' = [calc EXCEPT
           !.fn = "filter_ranges",
           !.out = filter_ranges(Decimal6(calc.args.first), Decimal6(calc.args.last),
                                 FrameChunks(calc.args.first, calc.args.last,
                                             calc.args.chunk_size),
                                 calc.args.time_radius)]
    /\ CalcUnchanged

\* C39: for every chunk and every time_radius >= 0 the temporal-filter range
\* has global first <= filter_first <= chunk.first <= chunk.last <=
\* filter_last <= global last, filter_first being chunk.first - time_radius
\* or the global first if that is larger, and filter_last chunk.last +
\* time_radius or the global last if that is smaller.
C39_FilterRangeWithinRender ==
    calc.fn = "filter_ranges" =>
        \A i \in 1..Len(calc.out) :
            LET r == calc.out[i]
                ff == int(r.filter_first)
                fl == int(r.filter_last)
                cf == int(r.first)
                cl == int(r.last)
                t == calc.args.time_radius
            IN /\ calc.args.first <= ff /\ ff <= cf /\ cf <= cl /\ cl <= fl
               /\ fl <= calc.args.last
               /\ ff = (IF cf - t > calc.args.first THEN cf - t ELSE calc.args.first)
               /\ fl = (IF cl + t < calc.args.last THEN cl + t ELSE calc.args.last)
               /\ r.filter_first = Decimal6(ff)
               /\ r.filter_last = Decimal6(fl)

\* A chunk whose filter range is cut at the global first on one side and
\* reaches time_radius frames beyond the chunk on the other.
C39_Witness ==
    /\ calc.fn = "filter_ranges"
    /\ calc.args.time_radius >= 2
    /\ \E i \in 1..Len(calc.out) :
         /\ int(calc.out[i].first) - calc.args.time_radius < calc.args.first
         /\ int(calc.out[i].filter_last) = int(calc.out[i].last) + calc.args.time_radius

\* range(start, stop - 1, -1): start, start - 1, .., stop.
RangeDown(start, stop) == [i \in 1..(IF start >= stop THEN start - stop + 1 ELSE 0) |-> start - i + 1]

\* The run_halted_queue calls of one pass of the loop "for level in
\* range(start_level, end_level - 1, -1)", lines 387-432 (again 457-502).
RECURSIVE LevelLoop(_, _)
LevelLoop(levels, do_temporal_filter) ==
    IF levels = <<>> THEN <<>>
    ELSE LET level == Head(levels)
         IN <<[app |-> "DerpCLI", level_start |-> level, level_end |-> level]>>
            \o (IF do_temporal_filter
                THEN <<[app |-> "TemporalBilateralFilter", level_start |-> level,
                        level_end |-> level],
                       [app |-> "Transfer", level_start |-> level, level_end |-> level]>>
                ELSE <<>>)
            \o LevelLoop(Tail(levels), do_temporal_filter)

\* Lines 364-432, and again lines 434-502: the optional batch of the
\* coarsest levels, which moves start_level, then the loop over the levels
\* from start_level down to end_level.
LevelBlock(start_level, end_level, coarsest_batch, do_temporal_filter) ==
    LET batch_start == start_level
        batch_end == max(end_level, start_level - coarsest_batch + 1)
        batched == coarsest_batch > 0 /\ batch_end <= batch_start
        start == IF batched THEN batch_end - 1 ELSE start_level
    IN [calls |->
            (IF batched
             THEN <<[app |-> "DerpCLI", level_start |-> batch_start, level_end |-> batch_end]>>
             ELSE <<>>)
            \o LevelLoop(RangeDown(start, end_level), do_temporal_filter),
        start_level |-> start]

\* Pipeline.depth_estimation, lines 364-502: the block is in the method
\* twice, the second time with the start_level the first has left.
depth_estimation(start_level, end_level, coarsest_batch, do_temporal_filter) ==
    LET b1 == LevelBlock(start_level, end_level, coarsest_batch, do_temporal_filter)
        b2 == LevelBlock(b1.start_level, end_level, coarsest_batch, do_temporal_filter)
    IN b1.calls \o b2.calls

CallDepthEstimation ==
    /\ calc.fn = "flags"
    /\ calc' = [calc EXCEPT
           !.fn = "depth_estimation",
           !.out = depth_estimation(calc.args.level_start, calc.args.level_end,
                                    calc.args.coarsest_batch, calc.args.do_temporal_filter)]
    /\ CalcUnchanged

NextCalc ==
    \/ CallGetFrameRange
    \/ CallFrameChunks
    \/ CallFilterRanges
    \/ CallDepthEstimation

SpecCalc == InitCalc /\ [][NextCalc]_vars

\* C37: in one call of depth_estimation every level from start_level down
\* to end_level is covered by exactly one DerpCLI stage, and the DerpCLI
\* stages come in strictly decreasing order of level: none covers a level
\* that is not finer than all levels covered before it.
C37_EachLevelOnceCoarsestFirst ==
    calc.fn = "depth_estimation" =>
        LET derp == SelectSeq(calc.out, LAMBDA c : c.app = "DerpCLI")
        IN /\ \A L \in calc.args.level_end..calc.args.level_start :
                 Cardinality({i \in 1..Len(derp) :
                                 derp[i].level_end <= L /\ L <= derp[i].level_start}) = 1
           /\ \A i, j \in 1..Len(derp) : i < j => derp[j].level_start < derp[i].level_end

(***************************************************************************)
(* The completion token and the dispatch table.                            *)
(***************************************************************************)
\* C34: every step that publishes a completion token settles a delivery on
\* which a handler of the dispatch table was invoked and returned without
\* an exception; a message whose app matches no entry gets no token.
C34_TokenOnlyAfterHandler ==
    [][Len(respQ') > Len(respQ) =>
         \E t \in threads :
             /\ t \notin threads'
             /\ t.st = "success"
             /\ HandlerInvoked(t.body)]_vars

\* C35: while run_halted_queue is in its wait loop, whatever handlers
\* succeed or fail, the response queue holds at most as many tokens as
\* messages were dispatched for the stage, and so does the depth the loop
\* last read: the depth cannot pass frame_chunks without equalling it.
C35_DepthAtMostDispatched ==
    pc = "wait" => (Len(respQ) <= frame_chunks /\ queue_size <= frame_chunks)

(***************************************************************************)
(* A handler that ends after its channel was closed.                       *)
(***************************************************************************)
\* C36: when a worker stops consuming, the broker takes back every delivery
\* of its channel for redelivery; a handler thread that ends after that
\* changes nothing at the broker (no ack, no token); every token that is
\* published comes with the ack of a delivery on an open channel whose
\* handler has just run to success; and when every handler succeeds the
\* tokens are as many as the jobs acknowledged after a success.
C36_ClosedChannelNoAckNoToken ==
    /\ [][\A w \in Workers :
            (wstate[w] = "consuming" /\ wstate'[w] # "consuming") =>
                \A d \in unacked :
                    d.w = w => /\ d \notin unacked'
                               /\ Occurrences(workQ', d.body) > Occurrences(workQ, d.body)]_vars
    /\ [][(\E w \in Workers : zombies'[w] < zombies[w]) =>
            UNCHANGED <<workQ, respQ, unacked, handled>>]_vars
    /\ [][Len(respQ') > Len(respQ) =>
            \E t \in threads :
                /\ t \notin threads'
                /\ t.st = "success"
                /\ ChannelOpen(t.w, t.ch)
                /\ [w |-> t.w, ch |-> t.ch, body |-> t.body] \in unacked \ unacked']_vars
    /\ [](Len(respQ) = Cardinality(handled))

\* A job was being handled when the connection of its worker was closed,
\* and that handler is about to end; the job was delivered again, every
\* job of the stage has been run to success and the response queue holds
\* one token for each.
C36_Witness ==
    /\ \E w \in Workers : zombies[w] > 0
    /\ handled = {JobBody(1, c) : c \in 1..MaxChunks}
    /\ Len(respQ) = MaxChunks
    /\ workQ = <<>>
    /\ unacked = {}
    /\ threads = {}

====
